---- MODULE Spec2Model ----
(***************************************************************************)
(* Model of the PokeTerminal text-layout and sprite-rendering code.        *)
(*                                                                         *)
(* A Python str is a sequence of one-character strings.  Three characters  *)
(* that cannot be written in a TLA+ string are named: ESC is "\033", BOX   *)
(* is the vertical border glyph (U+2551) and SEP the thin divider glyph    *)
(* (U+2502); each is one element of a sequence, that is, one character.    *)
(*                                                                         *)
(* Every function of the program that is modelled is an operator; every    *)
(* specification below draws the arguments of one call in its Init and     *)
(* applies the function in its action.  The variables of the functions a   *)
(* specification does not exercise stay at their idle values.              *)
(***************************************************************************)
EXTENDS Integers, Sequences, FiniteSets, TLC

VARIABLES
    wt_text,      \* wrap_text: argument text
    wt_width,     \* wrap_text: argument width
    wt_lines,     \* wrap_text: returned list of lines
    wt_pc,        \* "idle" | "call" | "done"
    bc_moves,     \* display_specific_moves: the moves of the category shown
    bc_lines,     \* format_bordered_content: argument lines
    bc_out,       \* format_bordered_content: returned lines
    bc_pc,        \* "idle" | "table" | "call" | "done"
    nb_lines,     \* block normalization: the block (a list of lines)
    nb_other,     \* the number of lines of the block beside it
    nb_kind,      \* "none" | "comparison" | "pokedex": whose normalization ran
    nb_once,      \* the block normalized
    nb_twice,     \* the normalized block normalized again
    nb_pc,        \* "idle" | "call" | "once" | "twice"
    cmp_name1,    \* display_comparison: pokemon1['name']
    cmp_name2,    \* display_comparison: pokemon2['name']
    cmp_sprite1,  \* the lines of _get_pokemon_sprite(pokemon1)
    cmp_sprite2,  \* the lines of _get_pokemon_sprite(pokemon2)
    cmp_rows,     \* the rows printed by _display_sprites_side_by_side
    cmp_pc,       \* "idle" | "call" | "done"
    sp_url,       \* get_sprite_ascii: "none" (no sprite_url) | "url"
    sp_status,    \* response.status_code of the fetch
    sp_decodes,   \* whether Image.open succeeds on the content
    sp_src,       \* the decoded image's size [w, h]
    sp_width,     \* argument width
    sp_base,      \* the decoded image: the pixel resampled to (x, y) has the
    sp_step,      \*   channels r = g = b = (sp_base + sp_step * (x + y)) % 256
    sp_alpha,     \*   and the alpha sp_alpha
    sp_fetches,   \* calls of requests.get made so far
    sp_indices,   \* ascii_index of every pixel, row by row
    sp_result,    \* the returned str
    sp_pc,        \* "idle" | "call" | "placeholder" | "error" | "rendered"
    ev_sprites,   \* evolution chain: per stage, the sprite lines
    ev_names,     \* per stage, stage['name']
    ev_reqs,      \* per stage, format_evolution_requirement(stage)
    ev_rows,      \* the rows printed by the two- or three-stage layout
    ev_pc,        \* "idle" | "call" | "done"
    sl_name,      \* _display_stat_comparison_line: stat_name
    sl_value1,    \* value1
    sl_value2,    \* value2
    sl_total,     \* is_total
    sl_row,       \* the row printed
    sl_pc,        \* "idle" | "call" | "done"
    tb_kind,      \* format_*_table: "none" | "moves" | "locations"
    tb_rows,      \* the argument moves or locations
    tb_table,     \* the returned str
    tb_pc,        \* "idle" | "call" | "done"
    dp_data,      \* display_pokemon: the Pokemon shown
    dp_out,       \* the lines printed
    dp_pc,        \* "idle" | "call" | "done"
    dc_pokemon1,  \* display_comparison: pokemon1
    dc_pokemon2,  \* pokemon2
    dc_out,       \* the lines printed so far
    dc_pc,        \* "idle" | "header" | "sprites" | "basic" | "stats" | "types" | "abilities" | "border" | "done"
    tm_current,   \* self.current_pokemon of the terminal, None or the data of a Pokemon
    tm_log,       \* what the terminal did for each query so far
    tm_pc,        \* position of PokedexTerminal.run
    fl_kind,      \* which query: moves, location gen, location game
    fl_generation, \* the generation typed, or inferred from the game
    fl_game,      \* specific_game, empty when no game was typed
    fl_method,    \* the learn method of the moves of the Pokemon
    fl_encounters, \* whether the API gave the encounter list
    fl_result,    \* moves_data or location_data returned
    fl_pc,        \* position of the query
    cm_enabled,   \* self.config['enabled']
    cm_memory,    \* self.memory_cache: cache key to data
    cm_order,     \* self.memory_access_order
    cm_files,     \* the cache files: cache key to content
    cm_expired,   \* the keys whose file is older than max_age_days
    cm_stats,     \* self.cache_stats
    cm_lock,      \* the thread that has cache_lock, or free
    cm_pc,        \* position of every thread
    cm_call,      \* the call every thread is in
    cm_loaded,    \* the data a get read from its file
    cm_ret,       \* what the last call of every thread returned
    cm_left,      \* calls the foreground thread may still make
    cm_next,      \* index of the name the preloader is at
    cm_walk,      \* the directories and files a clear or a cleanup has still to go through
    nt_stats,     \* pokemon['stats'] given to calculate_optimal_nature
    nt_result,    \* the text it returned
    nt_pc         \* call, done

wrapVars == <<wt_text, wt_width, wt_lines, wt_pc>>
borderVars == <<bc_moves, bc_lines, bc_out, bc_pc>>
normVars == <<nb_lines, nb_other, nb_kind, nb_once, nb_twice, nb_pc>>
compareVars == <<cmp_name1, cmp_name2, cmp_sprite1, cmp_sprite2, cmp_rows, cmp_pc>>
spriteVars == <<sp_url, sp_status, sp_decodes, sp_src, sp_width, sp_base, sp_step,
                sp_alpha, sp_fetches, sp_indices, sp_result, sp_pc>>
evolutionVars == <<ev_sprites, ev_names, ev_reqs, ev_rows, ev_pc>>
statVars == <<sl_name, sl_value1, sl_value2, sl_total, sl_row, sl_pc>>
tableVars == <<tb_kind, tb_rows, tb_table, tb_pc>>
pokedexVars == <<dp_data, dp_out, dp_pc>>
panelVars == <<dc_pokemon1, dc_pokemon2, dc_out, dc_pc>>
terminalVars == <<tm_current, tm_log, tm_pc>>
filterVars == <<fl_kind, fl_generation, fl_game, fl_method, fl_encounters, fl_result, fl_pc>>
cacheVars == <<cm_enabled, cm_memory, cm_order, cm_files, cm_expired, cm_stats, cm_lock, cm_pc, cm_call, cm_loaded, cm_ret, cm_left, cm_next, cm_walk>>
natureVars == <<nt_stats, nt_result, nt_pc>>
vars == <<wrapVars, borderVars, normVars, compareVars, spriteVars,
         evolutionVars, statVars, tableVars, pokedexVars, panelVars,
         terminalVars, filterVars, cacheVars, natureVars>>

(***************************************************************************)
(* Bounds of the model.                                                    *)
(***************************************************************************)
MaxTextLen == 6      \* longest text handed to wrap_text
MaxWrapWidth == 3    \* widest width handed to wrap_text
MaxLineLen == 116    \* most visible characters in a line handed to format_bordered_content
MaxMoves == 22       \* most moves in a list handed to format_move_table
MaxSpriteRows == 27  \* most lines in a sprite block
MaxNameLen == 60     \* longest Pokemon name
MaxRenderWidth == 8  \* widest render besides the default width
MaxEvolutionRows == 46  \* most lines in a sprite of an evolution stage

(***************************************************************************)
(* Python built-ins on str and list.                                       *)
(***************************************************************************)
ESC == "ESC"
BOX == "BOX"
SEP == "SEP"

Min(a, b) == IF a <= b THEN a ELSE b
Max(a, b) == IF a >= b THEN a ELSE b

\* c * n
Rep(c, n) == [i \in 1..n |-> c]

\* s[:n]
Take(s, n) == SubSeq(s, 1, Min(n, Len(s)))

\* s[n:]
Drop(s, n) == SubSeq(s, n + 1, Len(s))

\* s.ljust(w)
Ljust(s, w) == s \o Rep(" ", Max(0, w - Len(s)))

\* s.center(w): CPython puts the odd space on the left when both the padding
\* and the width are odd.
Center(s, w) ==
    IF Len(s) >= w THEN s
    ELSE LET pad == w - Len(s)
             left == (pad \div 2) + (IF pad % 2 = 1 /\ w % 2 = 1 THEN 1 ELSE 0)
         IN  Rep(" ", left) \o s \o Rep(" ", pad - left)

\* format(s, "^w"): the format mini-language puts the odd space on the right.
FormatCenter(s, w) ==
    IF Len(s) >= w THEN s
    ELSE LET pad == w - Len(s)
             left == pad \div 2
         IN  Rep(" ", left) \o s \o Rep(" ", pad - left)

IsSpace(c) == c \in {" ", "\n", "\t"}

\* The indices 1..Len(s), as a sequence.
Indices(s) == [i \in 1..Len(s) |-> i]

\* text.split(): the maximal runs of non-whitespace characters, in order.
Split(s) ==
    LET starts == SelectSeq(Indices(s),
                      LAMBDA i : ~IsSpace(s[i]) /\ (i = 1 \/ IsSpace(s[i - 1])))
        ends == SelectSeq(Indices(s),
                      LAMBDA i : ~IsSpace(s[i]) /\ (i = Len(s) \/ IsSpace(s[i + 1])))
    IN  [k \in 1..Len(starts) |-> SubSeq(s, starts[k], ends[k])]

\* sep.join(parts)
RECURSIVE Join(_, _)
Join(parts, sep) ==
    IF parts = <<>> THEN <<>>
    ELSE IF Len(parts) = 1 THEN parts[1]
    ELSE parts[1] \o sep \o Join(Tail(parts), sep)

\* a flattened list of lists
RECURSIVE Flatten(_)
Flatten(lists) == IF lists = <<>> THEN <<>> ELSE Head(lists) \o Flatten(Tail(lists))

(***************************************************************************)
(* DisplayFormatter.wrap_text (display_utils.py) and its copy              *)
(* Pokedex.wrap_text (PokeTerminal.py), which is the same code.            *)
(***************************************************************************)

\* One iteration of "for word in words": st = [lines, current_line].
WrapWord(st, word, width) ==
    IF Len(st.current_line \o <<" ">> \o word) <= width
    THEN IF st.current_line # <<>>
         THEN [st EXCEPT !.current_line = st.current_line \o <<" ">> \o word]
         ELSE [st EXCEPT !.current_line = word]
    ELSE IF st.current_line # <<>>
         THEN [lines |-> Append(st.lines, st.current_line), current_line |-> word]
         ELSE [lines |-> Append(st.lines, Take(word, width)),
               current_line |-> Drop(word, width)]

RECURSIVE WrapLoop(_, _, _, _)
WrapLoop(words, i, st, width) ==
    IF i > Len(words) THEN st
    ELSE WrapLoop(words, i + 1, WrapWord(st, words[i], width), width)

\* A faulty variant of wrap_text: the last line is not appended after the loop.
wrap_text_nolast(text, width) ==
    IF text = <<>> THEN << <<>> >>
    ELSE LET st == WrapLoop(Split(text), 1, [lines |-> <<>>, current_line |-> <<>>], width)
         IN  IF st.lines # <<>> THEN st.lines ELSE << <<>> >>

\* A faulty variant of wrap_text: the list is returned as it is, also when empty.
wrap_text_noguard(text, width) ==
    IF text = <<>> THEN << <<>> >>
    ELSE LET st == WrapLoop(Split(text), 1, [lines |-> <<>>, current_line |-> <<>>], width)
         IN  IF st.current_line # <<>> THEN Append(st.lines, st.current_line) ELSE st.lines

wrap_text(text, width) ==
    IF text = <<>> THEN << <<>> >>
    ELSE LET st == WrapLoop(Split(text), 1, [lines |-> <<>>, current_line |-> <<>>], width)
             lines == IF st.current_line # <<>>
                      THEN Append(st.lines, st.current_line)
                      ELSE st.lines
         IN  IF lines # <<>> THEN lines ELSE << <<>> >>

WrapAlphabet == {"a", "b", " "}
WrapTexts == UNION {[1..n -> WrapAlphabet] : n \in 0..MaxTextLen}

WrapIdle ==
    /\ wt_text = <<>>
    /\ wt_width = 0
    /\ wt_lines = <<>>
    /\ wt_pc = "idle"

WrapInit ==
    /\ wt_text \in WrapTexts
    /\ wt_width \in 1..MaxWrapWidth
    /\ wt_lines = <<>>
    /\ wt_pc = "call"

WrapCall ==
    /\ wt_pc = "call"
    /\ wt_lines' = wrap_text(wt_text, wt_width)
    /\ wt_pc' = "done"
    /\ UNCHANGED <<wt_text, wt_width>>

(***************************************************************************)
(* Claims about wrap_text.                                                 *)
(***************************************************************************)

\* The words of the text, and the text with its whitespace collapsed.
Collapsed(text) == Join(Split(text), <<" ">>)
WithoutSpaces(s) == SelectSeq(s, LAMBDA c : ~IsSpace(c))
WordsFit(text, width) == \A i \in 1..Len(Split(text)) : Len(Split(text)[i]) <= width

\* C4: no line returned by wrap_text is longer than the width; a word longer
\* than the width is cut into chunks of at most the width.
C4_NoLineLongerThanWidth ==
    wt_pc = "done" => \A i \in 1..Len(wt_lines) : Len(wt_lines[i]) <= wt_width

\* C5 as stated: joining the returned lines with single spaces gives the text
\* with its whitespace collapsed, for every text and width.
C5_JoinReproducesCollapsedText ==
    wt_pc = "done" => Join(wt_lines, <<" ">>) = Collapsed(wt_text)

\* The words of a text in which the words chosen by cut, when longer than
\* the width, are replaced by their first width characters and the rest.
CutWords(words, cut, width) ==
    Flatten([i \in 1..Len(words) |->
                IF cut[i] /\ Len(words[i]) > width
                THEN <<Take(words[i], width), Drop(words[i], width)>>
                ELSE <<words[i]>>])

\* C5 amended: for every text the non-space characters of the lines are
\* those of the text in the same order (nothing lost, nothing reordered);
\* the join gives the collapsed text whenever no word is longer than the
\* width; otherwise the join is the collapsed text with at most one space
\* more inside each word longer than the width, after its first width
\* characters: such a word is either whole or cut once there, the first word
\* of the text is always cut, and a word that fits is never cut.
C5_JoinReproducesWhenWordsFit ==
    wt_pc = "done" =>
        LET joined == Join(wt_lines, <<" ">>)
            words == Split(wt_text)
        IN  /\ WithoutSpaces(joined) = WithoutSpaces(wt_text)
            /\ WordsFit(wt_text, wt_width) => joined = Collapsed(wt_text)
            /\ joined = Collapsed(joined)
            /\ \E cut \in [1..Len(words) -> BOOLEAN] :
                  /\ Split(joined) = CutWords(words, cut, wt_width)
                  /\ Len(words) >= 1 => cut[1]

\* C5 witness: a text of several words with doubled whitespace, every word
\* fitting the width, wrapped into more than one line.
C5_Witness ==
    /\ wt_pc = "done"
    /\ Len(Split(wt_text)) >= 2
    /\ WordsFit(wt_text, wt_width)
    /\ wt_text # Collapsed(wt_text)
    /\ Len(wt_lines) >= 2

\* C6: wrap_text never returns an empty list; for the empty text and for a
\* text of whitespace only it returns exactly [""].
C6_NeverEmptyList ==
    wt_pc = "done" =>
        /\ Len(wt_lines) >= 1
        /\ Split(wt_text) = <<>> => wt_lines = << <<>> >>

\* C6 witness: a non-empty text made of whitespace only has been wrapped.
C6_Witness ==
    /\ wt_pc = "done"
    /\ wt_text # <<>>
    /\ Split(wt_text) = <<>>
    /\ wt_lines = << <<>> >>

(***************************************************************************)
(* More of Python's str: case mapping, str(int), split on a separator and  *)
(* the regular expression of the colour escape sequences.                  *)
(***************************************************************************)
LowerLetters == <<"a","b","c","d","e","f","g","h","i","j","k","l","m",
                  "n","o","p","q","r","s","t","u","v","w","x","y","z">>
UpperLetters == <<"A","B","C","D","E","F","G","H","I","J","K","L","M",
                  "N","O","P","Q","R","S","T","U","V","W","X","Y","Z">>

UpperChar(c) ==
    IF \E i \in 1..26 : LowerLetters[i] = c
    THEN UpperLetters[CHOOSE i \in 1..26 : LowerLetters[i] = c]
    ELSE c

LowerChar(c) ==
    IF \E i \in 1..26 : UpperLetters[i] = c
    THEN LowerLetters[CHOOSE i \in 1..26 : UpperLetters[i] = c]
    ELSE c

\* s.upper(), s.lower()
Upper(s) == [i \in 1..Len(s) |-> UpperChar(s[i])]
Lower(s) == [i \in 1..Len(s) |-> LowerChar(s[i])]

Digits == <<"0","1","2","3","4","5","6","7","8","9">>

\* str(n) for an int n >= 0
RECURSIVE Str(_)
Str(n) == IF n < 10 THEN <<Digits[n + 1]>> ELSE Str(n \div 10) \o <<Digits[(n % 10) + 1]>>

\* s.rjust(w), as in the format specification ">w"
Rjust(s, w) == Rep(" ", Max(0, w - Len(s))) \o s

\* s.split(sep) for a one-character separator: empty pieces are kept.
SplitOn(s, sep) ==
    LET seps == SelectSeq(Indices(s), LAMBDA i : s[i] = sep)
    IN  [k \in 1..(Len(seps) + 1) |->
            SubSeq(s, IF k = 1 THEN 1 ELSE seps[k - 1] + 1,
                      IF k = Len(seps) + 1 THEN Len(s) ELSE seps[k] - 1)]

\* The characters [0-9;] of the regular expression \033\[[0-9;]*m
IsParamChar(c) == c \in {"0","1","2","3","4","5","6","7","8","9",";"}

\* The index of the first character at or after i that is not in [0-9;]
RECURSIVE SkipParams(_, _)
SkipParams(s, i) ==
    IF i <= Len(s) /\ IsParamChar(s[i]) THEN SkipParams(s, i + 1) ELSE i

\* The index of the "m" ending a match of \033\[[0-9;]*m that starts at i, or 0.
\* The class [0-9;] does not hold "m", so the greedy match is the only one.
AnsiMatchEnd(s, i) ==
    IF s[i] = ESC /\ i + 1 <= Len(s) /\ s[i + 1] = "["
    THEN LET j == SkipParams(s, i + 2)
         IN  IF j <= Len(s) /\ s[j] = "m" THEN j ELSE 0
    ELSE 0

\* Whether the character at i lies in a match.  A match holds no ESC after its
\* first character, so two matches never overlap and every match is removed.
InAnsiMatch(s, i) == \E j \in 1..i : s[j] = ESC /\ AnsiMatchEnd(s, j) >= i

\* re.sub(r'\033\[[0-9;]*m', '', s)
StripAnsi(s) ==
    LET kept == SelectSeq(Indices(s), LAMBDA i : ~InAnsiMatch(s, i))
    IN  [k \in 1..Len(kept) |-> s[kept[k]]]

(***************************************************************************)
(* config.py: the colour tables.  TYPE_COLORS.get(k, '37') and             *)
(* CATEGORY_COLORS.get(k, '37').                                           *)
(***************************************************************************)
TYPE_COLORS(k) ==
    CASE k = <<"n","o","r","m","a","l">> -> <<"3","7">>
      [] k = <<"f","i","r","e">> -> <<"9","1">>
      [] k = <<"w","a","t","e","r">> -> <<"9","4">>
      [] k = <<"e","l","e","c","t","r","i","c">> -> <<"9","3">>
      [] k = <<"g","r","a","s","s">> -> <<"9","2">>
      [] k = <<"i","c","e">> -> <<"9","6">>
      [] k = <<"f","i","g","h","t","i","n","g">> -> <<"3","1">>
      [] k = <<"p","o","i","s","o","n">> -> <<"9","5">>
      [] k = <<"g","r","o","u","n","d">> -> <<"3","3">>
      [] k = <<"f","l","y","i","n","g">> -> <<"3","6">>
      [] k = <<"p","s","y","c","h","i","c">> -> <<"3","5">>
      [] k = <<"b","u","g">> -> <<"3","2">>
      [] k = <<"r","o","c","k">> -> <<"3","3">>
      [] k = <<"g","h","o","s","t">> -> <<"3","5">>
      [] k = <<"d","r","a","g","o","n">> -> <<"3","4">>
      [] k = <<"d","a","r","k">> -> <<"9","0">>
      [] k = <<"s","t","e","e","l">> -> <<"3","7">>
      [] k = <<"f","a","i","r","y">> -> <<"9","5">>
      [] OTHER -> <<"3","7">>

CATEGORY_COLORS(k) ==
    CASE k = <<"p","h","y","s","i","c","a","l">> -> <<"9","1">>
      [] k = <<"s","p","e","c","i","a","l">> -> <<"9","4">>
      [] k = <<"s","t","a","t","u","s">> -> <<"9","3">>
      [] OTHER -> <<"3","7">>

(***************************************************************************)
(* DisplayFormatter.format_move_type / format_move_category                *)
(***************************************************************************)
\* f"\033[{color}m{text}\033[0m"
Coloured(color, text) == <<ESC, "[">> \o color \o <<"m">> \o text \o <<ESC, "[", "0", "m">>

\* type_text = move_type.upper()[:8].ljust(8)
TypeText(move_type) == Ljust(Take(Upper(move_type), 8), 8)

\* category_text = category[:8].ljust(8)
CategoryText(category) == Ljust(Take(category, 8), 8)

format_move_type(move_type) == Coloured(TYPE_COLORS(Lower(move_type)), TypeText(move_type))

format_move_category(category) == Coloured(CATEGORY_COLORS(Lower(category)), CategoryText(category))

(***************************************************************************)
(* MoveHandler.format_move_table.  A move is a record name, type, power,   *)
(* accuracy, pp, category, level; None is written -1, and a move without   *)
(* the key 'level' has level -1 (the code tests 'level' in move and        *)
(* move['level'] > 0 together).                                            *)
(***************************************************************************)
None == -1
MoveCap == 20        \* moves[:20]
RuleLen == 80        \* "─" * 80
RULE == "RULE"       \* the rule glyph U+2500

\* str(v or '--')
StrOrDashes(v) == IF v = None \/ v = 0 THEN <<"-", "-">> ELSE Str(v)

HasLevel(move) == move.level # None /\ move.level > 0

\* The body of "for move in moves[:20]", the two coloured cells given.  The
\* line without a level starts with five spaces and has no space before the name.
MoveRowWith(move, type_cell, category_cell) ==
    LET name == Ljust(Take(move.name, 20), 20)
        power == Ljust(StrOrDashes(move.power), 4)
        accuracy == Ljust(StrOrDashes(move.accuracy), 4)
        pp == Ljust(StrOrDashes(move.pp), 3)
        start == IF HasLevel(move)
                 THEN Ljust(<<"L", "v", ".">> \o Rjust(Str(move.level), 2), 5) \o <<" ">>
                 ELSE Rep(" ", 5)
    IN  start \o name \o <<" ">> \o type_cell \o <<" ">> \o power \o <<" ">>
        \o accuracy \o <<" ">> \o pp \o <<" ">> \o category_cell

MoveRow(move) ==
    MoveRowWith(move, format_move_type(move.type), format_move_category(move.category))

\* The header line, with or without the LEVEL column.
MoveHeader(moves) ==
    (IF \E i \in 1..Len(moves) : HasLevel(moves[i])
     THEN <<"L","E","V","E","L">>
     ELSE Rep(" ", 5))
    \o <<" ">> \o Ljust(<<"M","O","V","E"," ","N","A","M","E">>, 20)
    \o <<" ">> \o Ljust(<<"T","Y","P","E">>, 8)
    \o <<" ">> \o Ljust(<<"P","O","W">>, 4)
    \o <<" ">> \o Ljust(<<"A","C","C">>, 4)
    \o <<" ">> \o Ljust(<<"P","P">>, 3)
    \o <<" ">> \o Ljust(<<"C","A","T","E","G","O","R","Y">>, 8)

\* The list "lines" of format_move_table before it is joined.
MoveTableLines(moves, title) ==
    LET shown == Take(moves, MoveCap)
    IN  << title \o <<":">>, Rep(RULE, RuleLen), MoveHeader(moves), Rep(RULE, RuleLen) >>
        \o [i \in 1..Len(shown) |-> MoveRow(shown[i])]
        \o (IF Len(moves) > MoveCap
            THEN << <<".",".","."," ","a","n","d"," ">> \o Str(Len(moves) - MoveCap)
                    \o <<" ","m","o","r","e"," ","m","o","v","e","s">> >>
            ELSE <<>>)

format_move_table(moves, title) ==
    IF moves = <<>>
    THEN title \o <<":", " ", "N", "o", "n", "e">>
    ELSE Join(MoveTableLines(moves, title), <<"\n">>)

(***************************************************************************)
(* DisplayFormatter.format_bordered_content                                *)
(***************************************************************************)
ContentWidth == 113  \* the default of the parameter content_width

BorderedLine(line, content_width) ==
    LET visible_length == Len(StripAnsi(line))
        padding_needed == Max(0, content_width - visible_length)
    IN  <<BOX, " ">> \o line \o Rep(" ", padding_needed) \o <<" ", BOX>>

\* A faulty variant of format_bordered_content: the padding is computed from len(line),
\* escape sequences included.
format_bordered_content_rawlen(lines, content_width) ==
    [i \in 1..Len(lines) |->
        <<BOX, " ">> \o lines[i] \o Rep(" ", Max(0, content_width - Len(lines[i])))
        \o <<" ", BOX>>]

format_bordered_content(lines, content_width) ==
    [i \in 1..Len(lines) |-> BorderedLine(lines[i], content_width)]

(***************************************************************************)
(* MoveHandler.display_specific_moves, the branch with moves: the table is *)
(* formatted, split into lines and handed to format_bordered_content.      *)
(***************************************************************************)
MoveTitle == <<"E","G","G"," ","M","O","V","E","S">>

\* The moves the model draws from: names, types and categories of several
\* lengths and colours, with and without a level, power, accuracy.
MoveCatalogue == <<
    [name |-> <<"t","a","c","k","l","e">>, type |-> <<"n","o","r","m","a","l">>,
     power |-> 40, accuracy |-> 100, pp |-> 35,
     category |-> <<"p","h","y","s","i","c","a","l">>, level |-> 1],
    [name |-> <<"e","m","b","e","r">>, type |-> <<"f","i","r","e">>,
     power |-> 40, accuracy |-> 100, pp |-> 25,
     category |-> <<"s","p","e","c","i","a","l">>, level |-> 7],
    [name |-> <<"t","h","u","n","d","e","r","-","w","a","v","e">>,
     type |-> <<"e","l","e","c","t","r","i","c">>,
     power |-> None, accuracy |-> 90, pp |-> 20,
     category |-> <<"s","t","a","t","u","s">>, level |-> None],
    [name |-> Rep("x", 24), type |-> <<"F","i","g","h","t","i","n","g","!">>,
     power |-> 120, accuracy |-> None, pp |-> 5,
     category |-> <<"u","n","k","n","o","w","n","-","k","i","n","d">>, level |-> 42],
    [name |-> <<"s","w","i","f","t">>, type |-> <<"s","h","a","d","o","w">>,
     power |-> 60, accuracy |-> 0, pp |-> 20,
     category |-> <<>>, level |-> 0] >>

\* n moves, taken in turn from the catalogue starting at its entry first.
MoveList(n, first) ==
    [i \in 1..n |-> MoveCatalogue[((first + i - 2) % Len(MoveCatalogue)) + 1]]

MoveLists == {MoveList(n, first) : n \in 1..MaxMoves, first \in 1..Len(MoveCatalogue)}

\* The lines the model hands to format_bordered_content directly: n visible
\* characters with no colour, one coloured run, two coloured runs (the first
\* with a two-part parameter), or an unfinished escape sequence at the end.
ColourLine(n, kind) ==
    CASE kind = 0 -> Rep("a", n)
      [] kind = 1 -> Coloured(<<"9","1">>, Rep("a", n))
      [] kind = 2 -> Coloured(<<"1",";","3","1">>, Rep("a", n \div 2))
                     \o Coloured(<<>>, Rep("b", n - (n \div 2)))
      [] kind = 3 -> Rep("a", n) \o <<ESC, "[", "9">>

ColourLines == {ColourLine(n, kind) : n \in 0..MaxLineLen, kind \in 0..3}

BorderIdle ==
    /\ bc_moves = <<>>
    /\ bc_lines = <<>>
    /\ bc_out = <<>>
    /\ bc_pc = "idle"

BorderInit ==
    /\ bc_out = <<>>
    /\ \/ /\ bc_pc = "call"
          /\ bc_moves = <<>>
          /\ \E line \in ColourLines : bc_lines = <<line>>
       \/ /\ bc_pc = "table"
          /\ bc_moves \in MoveLists
          /\ bc_lines = <<>>

\* move_table = self.format_move_table(moves, title)
\* content_lines = move_table.split('\n')
FormatMoveTable ==
    /\ bc_pc = "table"
    /\ bc_lines' = SplitOn(format_move_table(bc_moves, MoveTitle), "\n")
    /\ bc_pc' = "call"
    /\ UNCHANGED <<bc_moves, bc_out>>

\* formatted_lines = self.formatter.format_bordered_content(content_lines)
FormatBordered ==
    /\ bc_pc = "call"
    /\ bc_out' = format_bordered_content(bc_lines, ContentWidth)
    /\ bc_pc' = "done"
    /\ UNCHANGED <<bc_moves, bc_lines>>

(***************************************************************************)
(* Claims about format_bordered_content and the move table.                *)
(***************************************************************************)

\* The part of a formatted line between the border glyphs and their spaces.
Interior(out_line) == SubSeq(out_line, 3, Len(out_line) - 2)
VisibleLength(s) == Len(StripAnsi(s))

\* C1: for every input line, of any length, the content format_bordered_content
\* puts between the border glyphs has exactly content_width visible characters:
\* a shorter line is padded and a longer line is truncated.
C1_EveryLineHasContentWidth ==
    bc_pc = "done" =>
        \A i \in 1..Len(bc_out) :
            /\ bc_out[i][1] = BOX
            /\ bc_out[i][Len(bc_out[i])] = BOX
            /\ VisibleLength(Interior(bc_out[i])) = ContentWidth

\* C8: escape sequences never count toward width.  A line of at most
\* content_width visible characters is formatted to content_width visible
\* characters whatever escape sequences it holds, and its visible text is that
\* of the formatted uncoloured line; a move-table row with coloured type and
\* category cells is as wide, visibly, as the row with the uncoloured cells.
C8_ColourNeverCountsTowardWidth ==
    /\ bc_pc = "done" =>
          \A i \in 1..Len(bc_out) :
             VisibleLength(bc_lines[i]) <= ContentWidth =>
                /\ VisibleLength(Interior(bc_out[i])) = ContentWidth
                /\ StripAnsi(bc_out[i])
                     = format_bordered_content(<<StripAnsi(bc_lines[i])>>, ContentWidth)[1]
    /\ bc_pc \in {"call", "done"} =>
          \A k \in 1..Min(Len(bc_moves), MoveCap) :
             LET plain == MoveRowWith(bc_moves[k], TypeText(bc_moves[k].type),
                                      CategoryText(bc_moves[k].category))
             IN  /\ StripAnsi(bc_lines[4 + k]) = plain
                 /\ VisibleLength(bc_lines[4 + k]) = Len(plain)

\* C8 witness: a formatted move table whose rows hold colour sequences, and
\* whose every row has fewer visible characters than raw ones.
C8_Witness ==
    /\ bc_pc = "done"
    /\ Len(bc_moves) >= 2
    /\ \A k \in 1..Len(bc_moves) :
          /\ VisibleLength(bc_lines[4 + k]) < Len(bc_lines[4 + k])
          /\ VisibleLength(Interior(bc_out[4 + k])) = ContentWidth

(***************************************************************************)
(* config.py: the glyph ramp ASCII_CHARS = "@@%%##**++==--::..  "          *)
(***************************************************************************)
ASCII_CHARS == <<"@","@","%","%","#","#","*","*","+","+","=","=","-","-",":",":",".","."," "," ">>

(***************************************************************************)
(* Text blocks the model hands to the layout code in place of the result   *)
(* of get_sprite_ascii(...).split('\n').                                   *)
(***************************************************************************)
\* h rows of w glyphs; the glyph changes from row to row.
RenderedBlock(h, w) == [i \in 1..h |-> Rep(ASCII_CHARS[((i - 1) % Len(ASCII_CHARS)) + 1], w)]

\* h rows of differing lengths, some longer than any block width used.
RaggedBlock(h) == [i \in 1..h |-> Rep(ASCII_CHARS[((i - 1) % Len(ASCII_CHARS)) + 1], (i * 37) % 97)]

NoSpriteAvailable == <<"N","o"," ","s","p","r","i","t","e"," ","a","v","a","i","l","a","b","l","e">>
FailedToLoadSprite == <<"F","a","i","l","e","d"," ","t","o"," ","l","o","a","d"," ","s","p","r","i","t","e">>
ErrorGeneratingPrefix == <<"E","r","r","o","r"," ","g","e","n","e","r","a","t","i","n","g"," ",
                           "A","S","C","I","I"," ","a","r","t",":"," ">>

\* ComparisonHandler._get_pokemon_sprite without a sprite URL
NoSpriteBlock == <<NoSpriteAvailable>> \o Rep(<<>>, 20)

\* The one-line results of get_sprite_ascii that are no picture.
MessageBlocks == { <<FailedToLoadSprite>>, <<ErrorGeneratingPrefix \o Rep("e", 40)>> }

(***************************************************************************)
(* Block normalization.                                                    *)
(***************************************************************************)
Max3(a, b, c) == Max(a, Max(b, c))

\* A faulty variant of FitLines: the lines are padded but not cut.
FitLines_nocut(lines, width) == [i \in 1..Len(lines) |-> Ljust(lines[i], width)]

\* [line[:width].ljust(width) for line in lines]
FitLines(lines, width) == [i \in 1..Len(lines) |-> Ljust(Take(lines[i], width), width)]

\* A faulty variant of NormalizeBlock: the lines are cut and fitted but no
\* blank line is added.
NormalizeBlock_nopad(lines, sprite_width, max_height) ==
    FitLines(Take(lines, max_height), sprite_width)

\* comparison_handler.py 93-99 (and the same lines of the evolution layouts):
\*   lines = (lines + [''] * max_height)[:max_height]
\*   lines = [line[:sprite_width].ljust(sprite_width) for line in lines]
NormalizeBlock(lines, sprite_width, max_height) ==
    FitLines(Take(lines \o Rep(<<>>, max_height), max_height), sprite_width)

MinComparisonHeight == 25   \* max(len(sprite1_lines), len(sprite2_lines), 25)
ComparisonSpriteWidth == 50 \* sprite_width = 50
MinSpriteHeight == 20       \* min_sprite_height = 20
PokedexSpriteWidth == 50    \* sprite_width = 50

RECURSIVE PadToHeight(_, _, _)
\* while len(lines) < height: lines.append(" " * width)
PadToHeight(lines, height, width) ==
    IF Len(lines) < height
    THEN PadToHeight(Append(lines, Rep(" ", width)), height, width)
    ELSE lines

\* The sprite column without the padding to min_sprite_height.
NormalizeSpriteColumn_nomin(sprite_lines, info_height) ==
    LET fitted == FitLines(sprite_lines, PokedexSpriteWidth)
    IN  PadToHeight(fitted, Max(Len(fitted), info_height), PokedexSpriteWidth)

\* pokedex_core.py 62-67 and 106-110: the sprite column of display_pokemon,
\* info_height being len(info_lines).
NormalizeSpriteColumn(sprite_lines, info_height) ==
    LET fitted == FitLines(sprite_lines, PokedexSpriteWidth)
        padded == PadToHeight(fitted, MinSpriteHeight, PokedexSpriteWidth)
        max_height == Max(Len(padded), info_height)
    IN  PadToHeight(padded, max_height, PokedexSpriteWidth)

(***************************************************************************)
(* The normalization applied once and then again to its own result.        *)
(***************************************************************************)
NormBlocks ==
    {RenderedBlock(h, w) : h \in 1..MaxSpriteRows, w \in {0, 49, 50, 51}}
    \cup {RaggedBlock(h) : h \in 1..MaxSpriteRows}
    \cup {NoSpriteBlock} \cup MessageBlocks

NormIdle ==
    /\ nb_lines = <<>>
    /\ nb_other = 0
    /\ nb_kind = "none"
    /\ nb_once = <<>>
    /\ nb_twice = <<>>
    /\ nb_pc = "idle"

NormInit ==
    /\ nb_lines \in NormBlocks
    /\ nb_other \in {1, MinSpriteHeight, MaxSpriteRows + 1}
    /\ nb_kind = "none"
    /\ nb_once = <<>>
    /\ nb_twice = <<>>
    /\ nb_pc = "call"

\* _display_sprites_side_by_side normalizes sprite1_lines; nb_other is
\* len(sprite2_lines).
NormalizeComparison ==
    /\ nb_pc = "call"
    /\ nb_kind' = "comparison"
    /\ nb_once' = NormalizeBlock(nb_lines, ComparisonSpriteWidth,
                                 Max3(Len(nb_lines), nb_other, MinComparisonHeight))
    /\ nb_pc' = "once"
    /\ UNCHANGED <<nb_lines, nb_other, nb_twice>>

\* display_pokemon normalizes sprite_lines; nb_other is len(info_lines).
NormalizePokedex ==
    /\ nb_pc = "call"
    /\ nb_kind' = "pokedex"
    /\ nb_once' = NormalizeSpriteColumn(nb_lines, nb_other)
    /\ nb_pc' = "once"
    /\ UNCHANGED <<nb_lines, nb_other, nb_twice>>

\* The same normalization, with the same width and height, of the result.
NormalizeAgain ==
    /\ nb_pc = "once"
    /\ nb_twice' = IF nb_kind = "comparison"
                   THEN NormalizeBlock(nb_once, ComparisonSpriteWidth,
                                       Max3(Len(nb_once), nb_other, MinComparisonHeight))
                   ELSE NormalizeSpriteColumn(nb_once, nb_other)
    /\ nb_pc' = "twice"
    /\ UNCHANGED <<nb_lines, nb_other, nb_kind, nb_once>>

\* The height the code computes for the block: the list is padded to it.
TargetHeight ==
    IF nb_kind = "comparison"
    THEN Max3(Len(nb_lines), nb_other, MinComparisonHeight)
    ELSE Max3(Len(nb_lines), nb_other, MinSpriteHeight)

TargetWidth == IF nb_kind = "comparison" THEN ComparisonSpriteWidth ELSE PokedexSpriteWidth

\* C7: block normalization is idempotent, and its result has exactly the
\* target height, every line exactly the target width.
C7_NormalizationIdempotent ==
    /\ nb_pc \in {"once", "twice"} =>
          /\ Len(nb_once) = TargetHeight
          /\ \A i \in 1..Len(nb_once) : Len(nb_once[i]) = TargetWidth
    /\ nb_pc = "twice" => nb_twice = nb_once

\* C7 witness: a block with a line longer than the width and fewer lines than
\* the height was cut and padded, and normalized a second time.
C7_Witness ==
    /\ nb_pc = "twice"
    /\ nb_kind = "comparison"
    /\ Len(nb_lines) < TargetHeight
    /\ \E i \in 1..Len(nb_lines) : Len(nb_lines[i]) > TargetWidth
    /\ \E i \in 1..Len(nb_lines) : Len(nb_lines[i]) < TargetWidth
    /\ nb_once # nb_lines
    /\ nb_twice = nb_once

(***************************************************************************)
(* ComparisonHandler.display_comparison: the names and the sprite panel    *)
(* printed by _display_sprites_side_by_side.                               *)
(***************************************************************************)
IsLetter(c) == UpperChar(c) # c \/ LowerChar(c) # c

\* s.title(): a letter after a non-letter is upper-cased, any other lower-cased.
Title(s) ==
    [i \in 1..Len(s) |->
        IF i = 1 \/ ~IsLetter(s[i - 1]) THEN UpperChar(s[i]) ELSE LowerChar(s[i])]

ComparisonCenterWidth == 111   \* name_line.center(111), line.center(111)
ComparisonBlankWidth == 113    \* the literal blank row: 113 spaces between the glyphs

\* print(f"║ {line} ║")
Framed(line) == <<BOX, " ">> \o line \o <<" ", BOX>>

\* print("║" + " " * n + "║")
BlankRow(n) == <<BOX>> \o Rep(" ", n) \o <<BOX>>

\* The names row of _display_sprites_side_by_side.
ComparisonNamesRow(name1, name2) ==
    Framed(Center(FormatCenter(name1, 50) \o <<" ", " ", " ">> \o FormatCenter(name2, 50),
                  ComparisonCenterWidth))

\* The i-th sprite row, i counted from 0 as in the code.
ComparisonSpriteRow(sprite1_part, sprite2_part, i, max_height) ==
    Framed(Center(sprite1_part
                  \o (IF i = max_height \div 2 THEN <<" ", "V", "S", " ">>
                      ELSE <<" ", " ", " ", " ">>)
                  \o sprite2_part,
                  ComparisonCenterWidth))

\* Everything _display_sprites_side_by_side prints, in order.
DisplaySpritesSideBySide(sprite1_lines, sprite2_lines, name1, name2) ==
    LET max_height == Max3(Len(sprite1_lines), Len(sprite2_lines), MinComparisonHeight)
        s1 == NormalizeBlock(sprite1_lines, ComparisonSpriteWidth, max_height)
        s2 == NormalizeBlock(sprite2_lines, ComparisonSpriteWidth, max_height)
    IN  <<BlankRow(ComparisonBlankWidth), ComparisonNamesRow(name1, name2),
          BlankRow(ComparisonBlankWidth)>>
        \o [k \in 1..max_height |-> ComparisonSpriteRow(s1[k], s2[k], k - 1, max_height)]
        \o <<BlankRow(ComparisonBlankWidth)>>

ComparisonBlocks ==
    {RenderedBlock(h, ComparisonSpriteWidth) : h \in 1..MaxSpriteRows}
    \cup {NoSpriteBlock} \cup MessageBlocks

\* Names as the API gives them: lower case, some with a hyphen.
PokemonName(n) == [i \in 1..n |-> IF i = 3 THEN "-" ELSE "a"]
NameLengths == {1, 9, 50, 51, MaxNameLen}

CompareIdle ==
    /\ cmp_name1 = <<>>
    /\ cmp_name2 = <<>>
    /\ cmp_sprite1 = <<>>
    /\ cmp_sprite2 = <<>>
    /\ cmp_rows = <<>>
    /\ cmp_pc = "idle"

CompareInit ==
    /\ cmp_name1 \in {PokemonName(n) : n \in NameLengths}
    /\ cmp_name2 \in {PokemonName(n) : n \in {4, MaxNameLen - 2}}
    /\ cmp_sprite1 \in ComparisonBlocks
    /\ cmp_sprite2 \in {RenderedBlock(h, ComparisonSpriteWidth) : h \in {22, MaxSpriteRows}}
                       \cup {NoSpriteBlock}
    /\ cmp_rows = <<>>
    /\ cmp_pc = "call"

\* display_comparison: name1 = pokemon1['name'].title(), then the sprite panel.
DisplaySprites ==
    /\ cmp_pc = "call"
    /\ cmp_rows' = DisplaySpritesSideBySide(cmp_sprite1, cmp_sprite2,
                                            Title(cmp_name1), Title(cmp_name2))
    /\ cmp_pc' = "done"
    /\ UNCHANGED <<cmp_name1, cmp_name2, cmp_sprite1, cmp_sprite2>>

\* What a printed row holds between its first and last glyph.
BetweenGlyphs(row) == SubSeq(row, 2, Len(row) - 1)

\* C2: in the comparison panel every emitted row, the names row and each
\* sprite row, has exactly 113 visible characters between the border glyphs,
\* as the panel's blank rows have.
C2_ComparisonRowsAreInteriorWidth ==
    cmp_pc = "done" =>
        \A k \in 1..Len(cmp_rows) :
            /\ cmp_rows[k][1] = BOX
            /\ cmp_rows[k][Len(cmp_rows[k])] = BOX
            /\ VisibleLength(BetweenGlyphs(cmp_rows[k])) = ComparisonBlankWidth

(***************************************************************************)
(* DisplayFormatter.get_sprite_ascii.                                      *)
(*                                                                         *)
(* The fetch, the decoder and the resampling are library code: the model   *)
(* draws their outcome.  sp_status is the HTTP status, sp_decodes whether  *)
(* Image.open succeeds, sp_src the size of the decoded image.  The pixel of *)
(* the decoded RGBA image that the resampling brings to (x, y) is the grey *)
(* (sp_base + sp_step * (x + y)) % 256 with the alpha sp_alpha; it is      *)
(* composited over white and converted to luminance as Pillow does.        *)
(* Image.resize raises ValueError when the height is 0.                    *)
(*                                                                         *)
(* int(width * aspect_ratio * 0.45) is computed in floating point; the     *)
(* model computes floor(width * src.h * 45 / (src.w * 100)) and draws the  *)
(* sizes from SourceSizes, for which the two agree at every width used.    *)
(***************************************************************************)
SourceSizes == { [w |-> 1, h |-> 1], [w |-> 2, h |-> 1], [w |-> 1, h |-> 2],
                 [w |-> 2, h |-> 3], [w |-> 96, h |-> 96] }

DefaultSpriteWidth == 50     \* def get_sprite_ascii(self, sprite_url, width=50)

\* A faulty variant of SpriteHeight: the height is rounded up instead of truncated.
SpriteHeight_ceil(width, src) == (width * src.h * 45 + src.w * 100 - 1) \div (src.w * 100)

\* aspect_ratio = img.height / img.width; height = int(width * aspect_ratio * 0.45)
SpriteHeight(width, src) == (width * src.h * 45) \div (src.w * 100)

\* A faulty variant of AsciiIndex: the ramp is walked from its other end.
AsciiIndex_reversed(pixel) == ((255 - pixel) * (Len(ASCII_CHARS) - 1)) \div 255

\* ascii_index = int(pixel / 255 * (len(self.ascii_chars) - 1)); the float
\* result is floor(pixel * 19 / 255) for every pixel in 0..255.
AsciiIndex(pixel) == (pixel * (Len(ASCII_CHARS) - 1)) \div 255

\* background = Image.new('RGBA', img.size, (255, 255, 255, 255))
Background == [r |-> 255, g |-> 255, b |-> 255, a |-> 255]

\* The pixel of img.convert('RGBA') that ends at (x, y) of the resized image.
SourcePixel(base, step, alpha, x, y) ==
    LET v == (base + step * (x + y)) % 256
    IN  [r |-> v, g |-> v, b |-> v, a |-> alpha]

\* Pillow's division by 255 in integers: SHIFTFORDIV255(a) = (a + (a >> 8)) >> 8
ShiftForDiv255(a) == (a + (a \div 256)) \div 256

\* A faulty variant of AlphaComposite: the picture is not laid over the
\* background, its colour channels are taken as they are.
AlphaComposite_nobackground(dst, src) == [src EXCEPT !.a = 255]

\* Image.alpha_composite(background, img) for one pixel: src over dst, in
\* Pillow's fixed-point arithmetic (7 bits of precision).
AlphaComposite(dst, src) ==
    IF src.a = 0 THEN dst
    ELSE LET blend == dst.a * (255 - src.a)
             outa255 == src.a * 255 + blend
             coef1 == (src.a * 255 * 255 * 128) \div outa255
             coef2 == 255 * 128 - coef1
             Channel(s, d) == ShiftForDiv255(s * coef1 + d * coef2 + 128 * 128) \div 128
         IN  [r |-> Channel(src.r, dst.r),
              g |-> Channel(src.g, dst.g),
              b |-> Channel(src.b, dst.b),
              a |-> ShiftForDiv255(outa255 + 128)]

\* img.convert('L'): L = (R * 19595 + G * 38470 + B * 7471 + 0x8000) >> 16
ConvertL(px) == (px.r * 19595 + px.g * 38470 + px.b * 7471 + 32768) \div 65536

\* img.getpixel((x, y)) of the resized image
ResizedPixel(base, step, alpha, x, y) ==
    ConvertL(AlphaComposite(Background, SourcePixel(base, step, alpha, x, y)))

\* ascii_index for every (x, y), row by row: the loops of lines 141-148.
IndexGrid(width, height, base, step, alpha) ==
    [row \in 1..height |->
        [col \in 1..width |->
            AsciiIndex(ResizedPixel(base, step, alpha, col - 1, row - 1))]]

\* line += self.ascii_chars[ascii_index]; "\n".join(ascii_lines)
AsciiArt(grid) ==
    Join([row \in 1..Len(grid) |->
             [col \in 1..Len(grid[row]) |-> ASCII_CHARS[grid[row][col] + 1]]],
         <<"\n">>)

ErrorGenerating(message) == ErrorGeneratingPrefix \o message

DecodeErrorMessage == <<"c","a","n","n","o","t"," ","i","d","e","n","t","i","f","y"," ",
                        "i","m","a","g","e"," ","f","i","l","e">>
ResizeErrorMessage == <<"h","e","i","g","h","t"," ","a","n","d"," ","w","i","d","t","h"," ",
                        "m","u","s","t"," ","b","e"," ",">"," ","0">>
ConnectionErrorMessage == <<"c","o","n","n","e","c","t","i","o","n"," ",
                            "f","a","i","l","e","d">>

\* The status of a fetch that got no response: requests.get raised.
NoResponse == 0

\* A faulty variant of ExceptClause that lets the exception out of the call.
ExceptClause_propagates(message) == [pc |-> "raised", result |-> <<>>]

\* except Exception as e: return f"Error generating ASCII art: {str(e)}"
ExceptClause(message) == [pc |-> "error", result |-> ErrorGenerating(message)]

\* The alpha values of the decoded pictures: fully transparent, half
\* transparent and opaque.
SourceAlphas == {0, 128, 255}

SpriteIdle ==
    /\ sp_url = "none"
    /\ sp_status = 0
    /\ sp_decodes = FALSE
    /\ sp_src = [w |-> 1, h |-> 1]
    /\ sp_width = 0
    /\ sp_base = 0
    /\ sp_step = 0
    /\ sp_alpha = 255
    /\ sp_fetches = 0
    /\ sp_indices = <<>>
    /\ sp_result = <<>>
    /\ sp_pc = "idle"

SpriteInit ==
    /\ sp_fetches = 0
    /\ sp_indices = <<>>
    /\ sp_result = <<>>
    /\ sp_pc = "call"
    /\ \/ \* a picture is fetched and decoded
          /\ sp_url = "url"
          /\ sp_status = 200
          /\ sp_decodes = TRUE
          /\ sp_src \in SourceSizes
          /\ \/ /\ sp_width \in 1..MaxRenderWidth
                /\ sp_base \in 0..255
                /\ sp_step = 0
                /\ sp_alpha = 255
             \/ /\ sp_width \in 1..MaxRenderWidth
                /\ sp_base \in {0, 100}
                /\ sp_step \in {7, 51}
                /\ sp_alpha \in SourceAlphas
             \/ /\ sp_width = DefaultSpriteWidth
                /\ sp_src = [w |-> 96, h |-> 96]
                /\ sp_base \in {0, 255}
                /\ sp_step \in {0, 3}
                /\ sp_alpha = 255
             \/ \* an empty (fully transparent black) picture at the default width
                /\ sp_width = DefaultSpriteWidth
                /\ sp_src = [w |-> 96, h |-> 96]
                /\ sp_base = 0
                /\ sp_step = 0
                /\ sp_alpha = 0
       \/ \* no URL, a failed fetch or a failed decode
          /\ sp_url \in {"none", "url"}
          /\ sp_status \in {200, 404, NoResponse}
          /\ sp_decodes \in BOOLEAN
          /\ ~(sp_url = "url" /\ sp_status = 200 /\ sp_decodes)
          /\ sp_src = [w |-> 96, h |-> 96]
          /\ sp_width \in {1, DefaultSpriteWidth}
          /\ sp_base = 0
          /\ sp_step = 0
          /\ sp_alpha = 255

spriteArgs == <<sp_url, sp_status, sp_decodes, sp_src, sp_width, sp_base, sp_step, sp_alpha>>

\* if not sprite_url: return "No sprite available"
RenderNoUrl ==
    /\ sp_pc = "call"
    /\ sp_url = "none"
    /\ sp_result' = NoSpriteAvailable
    /\ sp_pc' = "placeholder"
    /\ UNCHANGED <<sp_fetches, sp_indices, spriteArgs>>

\* response = requests.get(sprite_url); status_code != 200
RenderFetchFailed ==
    /\ sp_pc = "call"
    /\ sp_url # "none"
    /\ sp_status \notin {200, NoResponse}
    /\ sp_fetches' = sp_fetches + 1
    /\ sp_result' = FailedToLoadSprite
    /\ sp_pc' = "placeholder"
    /\ UNCHANGED <<sp_indices, spriteArgs>>

\* requests.get raises, Image.open raises, or img.resize raises because the
\* height is 0: the except clause returns the message.
RenderError ==
    /\ sp_pc = "call"
    /\ sp_url # "none"
    /\ \/ sp_status = NoResponse
       \/ /\ sp_status = 200
          /\ ~sp_decodes \/ SpriteHeight(sp_width, sp_src) = 0
    /\ sp_fetches' = sp_fetches + 1
    /\ LET caught == ExceptClause(IF sp_status = NoResponse THEN ConnectionErrorMessage
                                  ELSE IF sp_decodes THEN ResizeErrorMessage
                                  ELSE DecodeErrorMessage)
       IN  /\ sp_result' = caught.result
           /\ sp_pc' = caught.pc
    /\ UNCHANGED <<sp_indices, spriteArgs>>

\* The successful render: resize to (width, height) and map every pixel.
RenderAscii ==
    /\ sp_pc = "call"
    /\ sp_url # "none"
    /\ sp_status = 200
    /\ sp_decodes
    /\ SpriteHeight(sp_width, sp_src) > 0
    /\ sp_fetches' = sp_fetches + 1
    /\ sp_indices' = IndexGrid(sp_width, SpriteHeight(sp_width, sp_src), sp_base, sp_step,
                              sp_alpha)
    /\ sp_result' = AsciiArt(sp_indices')
    /\ sp_pc' = "rendered"
    /\ UNCHANGED spriteArgs


(***************************************************************************)
(* Claims about get_sprite_ascii.                                          *)
(***************************************************************************)
SpriteRows == SplitOn(sp_result, "\n")

\* round(num / den) for num >= 0, den > 0, as Python's round: halves to even.
RoundHalfEven(num, den) ==
    LET q == num \div den
        r == num % den
    IN  IF 2 * r < den THEN q
        ELSE IF 2 * r > den THEN q + 1
        ELSE IF q % 2 = 0 THEN q ELSE q + 1

AllRowsHave(width) == \A i \in 1..Len(SpriteRows) : Len(SpriteRows[i]) = width

\* C9 as stated: a successful render returns exactly H rows of exactly W
\* characters, H = round(W * (sourceHeight / sourceWidth) * 0.45).
C9_RowsRoundedHeight ==
    sp_pc = "rendered" =>
        /\ Len(SpriteRows) = RoundHalfEven(sp_width * sp_src.h * 45, sp_src.w * 100)
        /\ AllRowsHave(sp_width)

\* C9 amended: H = int(W * (sourceHeight / sourceWidth) * 0.45), truncated and
\* not rounded; a render succeeds exactly when H >= 1 and then returns H rows
\* of W characters; when H = 0 the call returns an error message.
C9_RowsTruncatedHeight ==
    /\ sp_pc = "rendered" =>
          /\ Len(SpriteRows) = (sp_width * sp_src.h * 45) \div (sp_src.w * 100)
          /\ Len(SpriteRows) >= 1
          /\ AllRowsHave(sp_width)
    /\ (sp_pc = "error" /\ sp_status = 200 /\ sp_decodes) =>
          /\ (sp_width * sp_src.h * 45) \div (sp_src.w * 100) = 0
          /\ Take(sp_result, Len(ErrorGeneratingPrefix)) = ErrorGeneratingPrefix

\* C9 witness: a render whose exact height W * ratio * 0.45 has a fraction of
\* a half or more, so that rounding and truncating differ.
C9_Witness ==
    /\ sp_pc = "rendered"
    /\ Len(SpriteRows) >= 2
    /\ Len(SpriteRows) < RoundHalfEven(sp_width * sp_src.h * 45, sp_src.w * 100)
    /\ AllRowsHave(sp_width)

\* The pixel of the resized image each cell of the grid was computed from.
CellPixel(row, col) == ResizedPixel(sp_base, sp_step, sp_alpha, col - 1, row - 1)
Cells == {<<row, col>> : row \in 1..Len(sp_indices), col \in 1..sp_width}

\* C10: for every luminance p in 0..255 the glyph index is within
\* 0..len(ramp)-1 (0 for p = 0, the last index for p = 255), and the index
\* never decreases as p increases.
C10_GlyphIndexInRangeAndMonotone ==
    sp_pc = "rendered" =>
        /\ \A c \in Cells :
              /\ sp_indices[c[1]][c[2]] \in 0..(Len(ASCII_CHARS) - 1)
              /\ CellPixel(c[1], c[2]) = 0 => sp_indices[c[1]][c[2]] = 0
              /\ CellPixel(c[1], c[2]) = 255 => sp_indices[c[1]][c[2]] = Len(ASCII_CHARS) - 1
              /\ \A q \in 0..CellPixel(c[1], c[2]) : AsciiIndex(q) <= sp_indices[c[1]][c[2]]
        /\ LET PixelAndIndex == {<<CellPixel(c[1], c[2]), sp_indices[c[1]][c[2]]>> : c \in Cells}
           IN  \A c, d \in PixelAndIndex : c[1] <= d[1] => c[2] <= d[2]

\* C10 witness: a rendered image holding both a pixel 0 and a pixel 255,
\* mapped to the first and the last index of the ramp.
C10_Witness ==
    /\ sp_pc = "rendered"
    /\ \E c, d \in Cells :
          /\ CellPixel(c[1], c[2]) = 0
          /\ sp_indices[c[1]][c[2]] = 0
          /\ CellPixel(d[1], d[2]) = 255
          /\ sp_indices[d[1]][d[2]] = Len(ASCII_CHARS) - 1

\* C11: a sprite whose pixels are all fully transparent renders as the last
\* character of the ramp in every cell, whatever its colour channels hold,
\* and never as the first (darkest) character.
C11_TransparentRendersBrightest ==
    (sp_pc = "rendered" /\ sp_alpha = 0) =>
        \A i \in 1..Len(SpriteRows) : \A j \in 1..Len(SpriteRows[i]) :
            /\ SpriteRows[i][j] = ASCII_CHARS[Len(ASCII_CHARS)]
            /\ sp_indices[i][j] = Len(ASCII_CHARS) - 1
            /\ sp_indices[i][j] # 0

\* C11 witness: a fully transparent sprite whose colour channels are black
\* at the origin and vary across the picture, rendered into several rows of
\* the last ramp character.
C11_Witness ==
    /\ sp_pc = "rendered"
    /\ sp_alpha = 0
    /\ sp_base = 0
    /\ sp_step # 0
    /\ Len(SpriteRows) >= 2
    /\ sp_width >= 2
    /\ \A i \in 1..Len(SpriteRows) : \A j \in 1..Len(SpriteRows[i]) :
          SpriteRows[i][j] = ASCII_CHARS[Len(ASCII_CHARS)]

(***************************************************************************)
(* EvolutionHandler.display_evolution_chain for chains of two and three    *)
(* stages: _display_two_stage_evolution_wide and                           *)
(* _display_three_stage_evolution_wide.  ev_sprites, ev_names and ev_reqs  *)
(* hold, per stage, the sprite lines, stage['name'] and the text of        *)
(* format_evolution_requirement(stage).                                    *)
(***************************************************************************)
BorderWidth == 220        \* border_width = 220
DBL == "DBL"              \* the double rule glyph U+2550 of the arrows
ARROWHEAD == "ARROWHEAD"  \* the arrow head glyph U+25BA

ThreeStageSpriteWidth == 65  \* sprite_width = 65
ThreeStageMinHeight == 40    \* max(len(...), len(...), len(...), 40)
ThreeStageArrowWidth == 22   \* f"{req1_text:^22}", " " * 22
TwoStageSpriteWidth == 90    \* sprite_width = 90
TwoStageMinHeight == 45      \* max(len(...), len(...), 45)
TwoStageArrowWidth == 40     \* f"{req_text:^40}", " " * 40

\* s.replace('\n', ' ')
NewlinesToSpaces(s) == [i \in 1..Len(s) |-> IF s[i] = "\n" THEN " " ELSE s[i]]

\* int(max_height * 0.4): the product is exact enough for every height used
RequirementRow(max_height) == (max_height * 4) \div 10

\* "   ════════════════►   " and "     ══════════════════════════════►     "
ThreeStageArrow == Rep(" ", 3) \o Rep(DBL, 16) \o <<ARROWHEAD>> \o Rep(" ", 3)
TwoStageArrow == Rep(" ", 5) \o Rep(DBL, 30) \o <<ARROWHEAD>> \o Rep(" ", 5)

\* The arrow column of row i (from 0) of the three-stage layout.
ThreeStageArrowPart(evolution_req, i, max_height) ==
    IF i = RequirementRow(max_height)
    THEN LET req_text == IF evolution_req # <<>> THEN NewlinesToSpaces(evolution_req) ELSE <<>>
         IN  IF req_text # <<>> THEN FormatCenter(req_text, ThreeStageArrowWidth)
             ELSE Rep(" ", ThreeStageArrowWidth)
    ELSE IF i = RequirementRow(max_height) + 1 THEN ThreeStageArrow
    ELSE Rep(" ", ThreeStageArrowWidth)

\* One sprite row of the three-stage layout, as printed.
ThreeStageRow(part1, part2, part3, arrow1_part, arrow2_part, border_width) ==
    LET line == part1 \o arrow1_part \o part2 \o arrow2_part \o part3
        trimmed == IF Len(line) > border_width - 2
                   THEN part1 \o Take(arrow1_part, 20) \o part2 \o Take(arrow2_part, 20) \o part3
                   ELSE line
    IN  Framed(Center(trimmed, border_width - 2))

DisplayThreeStageEvolutionWide(sprites, names, reqs, border_width) ==
    LET max_height == Max(Max3(Len(sprites[1]), Len(sprites[2]), Len(sprites[3])),
                          ThreeStageMinHeight)
        s1 == NormalizeBlock(sprites[1], ThreeStageSpriteWidth, max_height)
        s2 == NormalizeBlock(sprites[2], ThreeStageSpriteWidth, max_height)
        s3 == NormalizeBlock(sprites[3], ThreeStageSpriteWidth, max_height)
        name_line == FormatCenter(Title(names[1]), 65) \o Rep(" ", 6)
                     \o FormatCenter(Title(names[2]), 65) \o Rep(" ", 6)
                     \o FormatCenter(Title(names[3]), 65)
    IN  <<BlankRow(border_width - 2), BlankRow(border_width - 2),
          Framed(Center(name_line, border_width - 2)),
          BlankRow(border_width - 2)>>
        \o [k \in 1..max_height |->
               ThreeStageRow(s1[k], s2[k], s3[k],
                             ThreeStageArrowPart(reqs[2], k - 1, max_height),
                             ThreeStageArrowPart(reqs[3], k - 1, max_height),
                             border_width)]
        \o <<BlankRow(border_width - 2), BlankRow(border_width - 2)>>

\* The arrow column of row i (from 0) of the two-stage layout.
TwoStageArrowPart(evolution_req, i, max_height) ==
    IF i = RequirementRow(max_height)
    THEN LET req_text == IF evolution_req # <<>> THEN NewlinesToSpaces(evolution_req) ELSE <<>>
         IN  IF req_text # <<>> THEN FormatCenter(req_text, TwoStageArrowWidth)
             ELSE Rep(" ", TwoStageArrowWidth)
    ELSE IF i = RequirementRow(max_height) + 1 THEN TwoStageArrow
    ELSE Rep(" ", TwoStageArrowWidth)

DisplayTwoStageEvolutionWide(sprites, names, reqs, border_width) ==
    LET max_height == Max3(Len(sprites[1]), Len(sprites[2]), TwoStageMinHeight)
        s1 == NormalizeBlock(sprites[1], TwoStageSpriteWidth, max_height)
        s2 == NormalizeBlock(sprites[2], TwoStageSpriteWidth, max_height)
        name_line == FormatCenter(Title(names[1]), 90) \o Rep(" ", 10)
                     \o FormatCenter(Title(names[2]), 90)
    IN  <<BlankRow(border_width - 2), BlankRow(border_width - 2),
          Framed(Center(name_line, border_width - 2)),
          BlankRow(border_width - 2)>>
        \o [k \in 1..max_height |->
               Framed(Center(s1[k] \o TwoStageArrowPart(reqs[2], k - 1, max_height) \o s2[k],
                             border_width - 2))]
        \o <<BlankRow(border_width - 2), BlankRow(border_width - 2)>>

\* _display_evolution_stages_wide for len(stages) = 2 and 3
DisplayEvolutionStagesWide(sprites, names, reqs, border_width) ==
    IF Len(sprites) = 2
    THEN DisplayTwoStageEvolutionWide(sprites, names, reqs, border_width)
    ELSE DisplayThreeStageEvolutionWide(sprites, names, reqs, border_width)

\* Requirement texts as format_evolution_requirement builds them.
Requirements == { <<>>,
                  <<"L","E","V","E","L"," ","1","6">>,
                  <<"T","R","A","D","E","\n","w","i","t","h"," ">> \o Rep("k", 12),
                  <<"L","E","V","E","L"," ","U","P","\n">> \o Rep("c", 40) }

\* The sprite lines of one stage: ['No sprite available'], or a render of
\* the layout's width (h rows), or a message of get_sprite_ascii.
StageSprites(width) ==
    { <<NoSpriteAvailable>>, <<FailedToLoadSprite>> }
    \cup {RenderedBlock(h, width) : h \in {29, MaxEvolutionRows}}

EvolutionIdle ==
    /\ ev_sprites = <<>>
    /\ ev_names = <<>>
    /\ ev_reqs = <<>>
    /\ ev_rows = <<>>
    /\ ev_pc = "idle"

EvolutionInit ==
    /\ ev_rows = <<>>
    /\ ev_pc = "call"
    /\ \/ /\ ev_sprites \in [1..2 -> StageSprites(TwoStageSpriteWidth)]
          /\ ev_names \in {<<PokemonName(7), PokemonName(n)>> : n \in {9, MaxNameLen}}
          /\ ev_reqs \in {<<<<>>, r>> : r \in Requirements}
       \/ /\ ev_sprites \in [1..3 -> StageSprites(ThreeStageSpriteWidth)]
          /\ ev_names \in {<<PokemonName(7), PokemonName(9), PokemonName(10)>>}
          /\ ev_reqs \in {<<<<>>, r[1], r[2]>> : r \in Requirements \X Requirements}

\* The rows printed between the frame's header and its closing line.
DisplayEvolutionStages ==
    /\ ev_pc = "call"
    /\ ev_rows' = DisplayEvolutionStagesWide(ev_sprites, ev_names, ev_reqs, BorderWidth)
    /\ ev_pc' = "done"
    /\ UNCHANGED <<ev_sprites, ev_names, ev_reqs>>

\* C3: in the two-stage and three-stage layouts a combined row narrower than
\* the frame interior is centred and a wider one is truncated, so every
\* emitted row (blank rows, names row, sprite rows) has the same total width,
\* the frame's.
C3_EvolutionRowsHaveFrameWidth ==
    ev_pc = "done" =>
        \A k \in 1..Len(ev_rows) : Len(ev_rows[k]) = Len(BlankRow(BorderWidth - 2))


(***************************************************************************)
(* ComparisonHandler._display_stat_comparison_line: one line of the stat   *)
(* comparison, with the winner markers and the two bars.                   *)
(***************************************************************************)
MaxStatValue == 100      \* greatest stat value compared

LEFTHEAD == "LEFTHEAD"   \* the marker U+25C4 of the right-hand winner
FULL == "FULL"           \* the filled cell U+2588 of a bar
SHADE == "SHADE"         \* the empty cell U+2591 of a bar

BarLength == 20          \* bar_length = 20

\* winner1, winner2
Winners_swapped(value1, value2) ==
    IF value1 > value2 THEN <<" ", LEFTHEAD>>
    ELSE IF value2 > value1 THEN <<ARROWHEAD, " ">>
    ELSE <<"=", "=">>

\* if value1 > value2: ... elif value2 > value1: ... else: ...
Winners(value1, value2) ==
    IF value1 > value2 THEN <<ARROWHEAD, " ">>
    ELSE IF value2 > value1 THEN <<" ", LEFTHEAD>>
    ELSE <<"=", "=">>

\* A faulty variant of BarLen: the number of cells is rounded to the nearest.
BarLen_rounded(value, max_value) ==
    (2 * value * BarLength + max_value) \div (2 * max_value)

\* int((value / max_value) * bar_length); the float result is
\* floor(value * 20 / max_value) for all values up to 1599.
BarLen(value, max_value) == (value * BarLength) \div max_value

\* "█" * bar_len + "░" * (bar_length - bar_len)
Bar(bar_len) == Rep(FULL, bar_len) \o Rep(SHADE, BarLength - bar_len)

\* The line of both branches of "if is_total" (they are the same), centred
\* and framed.
StatComparisonLine(stat_name, value1, value2, is_total) ==
    LET winner == Winners(value1, value2)
        max_value == Max3(value1, value2, 1)
        bar1 == Bar(BarLen(value1, max_value))
        bar2 == Bar(BarLen(value2, max_value))
        line == Rjust(stat_name, 8) \o <<":", " ", winner[1], " ">>
                \o Rjust(Str(value1), 3) \o <<" ", "[">> \o bar1
                \o <<"]", " ", "V", "S", " ", "[">> \o bar2 \o <<"]", " ">>
                \o Ljust(Str(value2), 3) \o <<" ", winner[2]>>
    IN  Framed(Center(line, ComparisonCenterWidth))

\* stat_order of _display_stats_comparison, and the "TOTAL" line
StatNames == << <<"H","P">>, <<"A","t","t","a","c","k">>, <<"D","e","f","e","n","s","e">>,
                <<"S","p","."," ","A","t","k">>, <<"S","p","."," ","D","e","f">>,
                <<"S","p","e","e","d">>, <<"T","O","T","A","L">> >>

StatIdle ==
    /\ sl_name = <<>>
    /\ sl_value1 = 0
    /\ sl_value2 = 0
    /\ sl_total = FALSE
    /\ sl_row = <<>>
    /\ sl_pc = "idle"

StatInit ==
    /\ sl_name \in {StatNames[k] : k \in 1..Len(StatNames)}
    /\ sl_total = (sl_name = StatNames[Len(StatNames)])
    /\ sl_value1 \in 0..MaxStatValue
    /\ sl_value2 \in 0..MaxStatValue
    /\ sl_row = <<>>
    /\ sl_pc = "call"

DisplayStatComparisonLine ==
    /\ sl_pc = "call"
    /\ sl_row' = StatComparisonLine(sl_name, sl_value1, sl_value2, sl_total)
    /\ sl_pc' = "done"
    /\ UNCHANGED <<sl_name, sl_value1, sl_value2, sl_total>>

(***************************************************************************)
(* Claims about the stat comparison line.                                  *)
(***************************************************************************)
\* The cells between the k-th "[" and the k-th "]" of a row.
BarOf(row, k) ==
    LET opens == SelectSeq(Indices(row), LAMBDA i : row[i] = "[")
        closes == SelectSeq(Indices(row), LAMBDA i : row[i] = "]")
    IN  SubSeq(row, opens[k] + 1, closes[k] - 1)

FilledCells(bar) == Len(SelectSeq(bar, LAMBDA c : c = FULL))

\* The marker left of "value1 [" and the marker right of "] value2".
LeftMarker(row) ==
    row[SelectSeq(Indices(row), LAMBDA i : row[i] = "[")[1] - 6]
RightMarker(row) ==
    row[SelectSeq(Indices(row), LAMBDA i : row[i] = "]")[2] + 6]

\* C12 as stated: each bar has 20 cells and the filled cells of each side are
\* round(value / max(value_left, value_right, 1) * 20).
C12_BarCellsRounded ==
    sl_pc = "done" =>
        LET max_value == Max3(sl_value1, sl_value2, 1)
        IN  /\ Len(BarOf(sl_row, 1)) = 20
            /\ Len(BarOf(sl_row, 2)) = 20
            /\ FilledCells(BarOf(sl_row, 1)) = RoundHalfEven(sl_value1 * 20, max_value)
            /\ FilledCells(BarOf(sl_row, 2)) = RoundHalfEven(sl_value2 * 20, max_value)

\* C12 amended: each bar has 20 cells, the filled ones first; the filled
\* cells of each side are int(value / max(value_left, value_right, 1) * 20),
\* truncated and not rounded; for (100, 50) they are 20 and 10.
C12_BarCellsTruncated ==
    sl_pc = "done" =>
        LET max_value == Max3(sl_value1, sl_value2, 1)
            n1 == (sl_value1 * 20) \div max_value
            n2 == (sl_value2 * 20) \div max_value
        IN  /\ BarOf(sl_row, 1) = Rep(FULL, n1) \o Rep(SHADE, 20 - n1)
            /\ BarOf(sl_row, 2) = Rep(FULL, n2) \o Rep(SHADE, 20 - n2)
            /\ (sl_value1 = 100 /\ sl_value2 = 50) => (n1 = 20 /\ n2 = 10)

\* C12 witness: the values (3, 1), whose right bar is 6.67 cells long: it is
\* printed with 6 filled cells (not the rounded 7) beside a full left bar.
C12_Witness ==
    /\ sl_pc = "done"
    /\ sl_value1 = 3
    /\ sl_value2 = 1
    /\ FilledCells(BarOf(sl_row, 1)) = 20
    /\ FilledCells(BarOf(sl_row, 2)) = 6
    /\ RoundHalfEven(sl_value2 * 20, sl_value1) = 7

\* C13: when the left value is greater only the left marker is shown and the
\* right marker is blank; when the right value is greater only the right
\* marker is shown and the left is blank; when the values are equal the tie
\* marker is shown on both sides.
C13_WinnerMarkers ==
    sl_pc = "done" =>
        /\ sl_value1 > sl_value2 =>
              LeftMarker(sl_row) = ARROWHEAD /\ RightMarker(sl_row) = " "
        /\ sl_value2 > sl_value1 =>
              LeftMarker(sl_row) = " " /\ RightMarker(sl_row) = LEFTHEAD
        /\ sl_value1 = sl_value2 =>
              LeftMarker(sl_row) = "=" /\ RightMarker(sl_row) = "="

\* C13 witness: a line whose right value is the greater one, with the right
\* marker shown and the left one blank.
C13_Witness ==
    /\ sl_pc = "done"
    /\ sl_value2 > sl_value1
    /\ sl_value1 > 0
    /\ LeftMarker(sl_row) = " "
    /\ RightMarker(sl_row) = LEFTHEAD


(***************************************************************************)
(* LocationHandler.format_location_table, and the two table formatters     *)
(* called with lists of every length around their caps.                    *)
(***************************************************************************)
MaxLocations == 27     \* most locations in a list handed to format_location_table

LocationCap == 25      \* for location in locations[:25]

LocationTitle == <<"E","N","C","O","U","N","T","E","R"," ",
                   "L","O","C","A","T","I","O","N","S">>

\* f"{'LOCATION':<25} {'AREA':<20} {'METHOD':<15} {'LEVEL':<8} {'CHANCE':<6}"
LocationHeader ==
    Ljust(<<"L","O","C","A","T","I","O","N">>, 25) \o <<" ">>
    \o Ljust(<<"A","R","E","A">>, 20) \o <<" ">>
    \o Ljust(<<"M","E","T","H","O","D">>, 15) \o <<" ">>
    \o Ljust(<<"L","E","V","E","L">>, 8) \o <<" ">>
    \o Ljust(<<"C","H","A","N","C","E">>, 6)

\* The line of one location.
LocationRow(location) ==
    Ljust(Take(location.location, 25), 25) \o <<" ">>
    \o Ljust(Take(location.area, 20), 20) \o <<" ">>
    \o Ljust(Take(location.method, 15), 15) \o <<" ">>
    \o Ljust(Take(location.level_range, 8), 8) \o <<" ">>
    \o Ljust(Str(location.chance) \o <<"%">>, 6)

\* A faulty variant of LocationTableLines: the rows beyond the cap are
\* dropped without the summary line.
LocationTableLines_nosummary(locations, title) ==
    LET shown == Take(locations, LocationCap)
    IN  << title \o <<":">>, Rep(RULE, RuleLen), LocationHeader, Rep(RULE, RuleLen) >>
        \o [i \in 1..Len(shown) |-> LocationRow(shown[i])]

\* The list "lines" of format_location_table before it is joined.
LocationTableLines(locations, title) ==
    LET shown == Take(locations, LocationCap)
    IN  << title \o <<":">>, Rep(RULE, RuleLen), LocationHeader, Rep(RULE, RuleLen) >>
        \o [i \in 1..Len(shown) |-> LocationRow(shown[i])]
        \o (IF Len(locations) > LocationCap
            THEN << <<".",".","."," ","a","n","d"," ">> \o Str(Len(locations) - LocationCap)
                    \o <<" ","m","o","r","e"," ","l","o","c","a","t","i","o","n","s">> >>
            ELSE <<>>)

format_location_table(locations, title) ==
    IF locations = <<>>
    THEN title \o <<":", " ", "N", "o", "n", "e", " ", "f", "o", "u", "n", "d">>
    ELSE Join(LocationTableLines(locations, title), <<"\n">>)

\* The encounters the model draws from, as get_location_data builds them.
LocationCatalogue == <<
    [location |-> <<"R","o","u","t","e"," ","1">>, area |-> <<"M","a","i","n"," ","A","r","e","a">>,
     method |-> <<"W","a","l","k">>, level_range |-> <<"2","-","5">>, chance |-> 50],
    [location |-> Rep("V", 27), area |-> Rep("r", 22),
     method |-> <<"S","u","p","e","r"," ","R","o","d"," ","F","i","s","h","i","n","g">>,
     level_range |-> <<"1","0","0","-","1","0","0","0","0">>, chance |-> 100],
    [location |-> <<"M","t"," ","M","o","o","n">>, area |-> <<"1","F">>,
     method |-> <<"G","i","f","t">>, level_range |-> <<"5">>, chance |-> 5] >>

\* n locations, taken in turn from the catalogue starting at its entry first.
LocationList(n, first) ==
    [i \in 1..n |-> LocationCatalogue[((first + i - 2) % Len(LocationCatalogue)) + 1]]

TableIdle ==
    /\ tb_kind = "none"
    /\ tb_rows = <<>>
    /\ tb_table = <<>>
    /\ tb_pc = "idle"

TableInit ==
    /\ tb_table = <<>>
    /\ tb_pc = "call"
    /\ \/ /\ tb_kind = "moves"
          /\ tb_rows \in {MoveList(n, first) : n \in 0..MaxMoves, first \in 1..Len(MoveCatalogue)}
       \/ /\ tb_kind = "locations"
          /\ tb_rows \in {LocationList(n, first) :
                             n \in 0..MaxLocations, first \in 1..Len(LocationCatalogue)}

FormatMoves ==
    /\ tb_pc = "call"
    /\ tb_kind = "moves"
    /\ tb_table' = format_move_table(tb_rows, MoveTitle)
    /\ tb_pc' = "done"
    /\ UNCHANGED <<tb_kind, tb_rows>>

FormatLocations ==
    /\ tb_pc = "call"
    /\ tb_kind = "locations"
    /\ tb_table' = format_location_table(tb_rows, LocationTitle)
    /\ tb_pc' = "done"
    /\ UNCHANGED <<tb_kind, tb_rows>>

(***************************************************************************)
(* Claims about the tables.                                                *)
(***************************************************************************)
TableLines == SplitOn(tb_table, "\n")
TableCap == IF tb_kind = "moves" THEN MoveCap ELSE LocationCap
TableTitle == IF tb_kind = "moves" THEN MoveTitle ELSE LocationTitle
TableHeader == IF tb_kind = "moves" THEN MoveHeader(tb_rows) ELSE LocationHeader
TableRow(row) == IF tb_kind = "moves" THEN MoveRow(row) ELSE LocationRow(row)
TableUnit == IF tb_kind = "moves" THEN <<"m","o","v","e","s">>
             ELSE <<"l","o","c","a","t","i","o","n","s">>

\* The summary line that states n remaining.
SummaryLine(n) ==
    <<".",".","."," ","a","n","d"," ">> \o Str(n) \o <<" ","m","o","r","e"," ">> \o TableUnit

\* The title line, a rule, the header, a rule, then the first cap rows in
\* input order, then the summary line when there are more rows than the cap.
TableIsComplete ==
    LET N == Len(tb_rows)
        shown == Min(N, TableCap)
    IN  /\ Len(TableLines) = 4 + shown + (IF N > TableCap THEN 1 ELSE 0)
        /\ TableLines[1] = TableTitle \o <<":">>
        /\ TableLines[2] = Rep(RULE, RuleLen)
        /\ TableLines[3] = TableHeader
        /\ TableLines[4] = Rep(RULE, RuleLen)
        /\ \A i \in 1..shown : TableLines[4 + i] = TableRow(tb_rows[i])
        /\ N > TableCap => TableLines[4 + shown + 1] = SummaryLine(N - TableCap)

\* C14 as stated: a table built from N rows has the title, rule, header and
\* rule lines, then all N rows in input order when N <= cap, and exactly the
\* first cap rows and one summary line stating N - cap when N > cap.
C14_TableRowsAndSummary ==
    tb_pc = "done" => TableIsComplete

\* C14 amended: the same for every N >= 1; for N = 0 the table is the single
\* line "<title>: None" (moves) or "<title>: None found" (locations), with
\* no rule and no header.
C14_TableRowsAndSummaryFromOneRow ==
    tb_pc = "done" =>
        /\ Len(tb_rows) >= 1 => TableIsComplete
        /\ Len(tb_rows) = 0 =>
              /\ Len(TableLines) = 1
              /\ Take(tb_table, Len(TableTitle) + 6) = TableTitle \o <<":"," ","N","o","n","e">>

\* C14 witness: a location table of more rows than the cap, with the first
\* 25 rows and the summary line stating what remains.
C14_Witness ==
    /\ tb_pc = "done"
    /\ tb_kind = "locations"
    /\ Len(tb_rows) = LocationCap + 2
    /\ Len(TableLines) = 4 + LocationCap + 1
    /\ TableLines[Len(TableLines)] = SummaryLine(2)
    /\ TableLines[4 + LocationCap] = LocationRow(tb_rows[LocationCap])


(***************************************************************************)
(* PokedexCore.display_pokemon: the Pokedex entry panel.  dp_data holds    *)
(* the Pokemon: name, id, height, weight, the type names, pokemon['stats'] *)
(* (name and base_stat, None written -1), the results of get_egg_groups,   *)
(* get_growth_rate and get_ability_descriptions, the outcome of            *)
(* get_description (its text, or the message of the exception it raised on *)
(* a malformed entry) and the text of the sprite.  dp_out holds the lines  *)
(* printed.  A call's outcome is a record: ok, value, error.               *)
(***************************************************************************)
TOPLEFT == "TOPLEFT"       \* the frame glyphs U+2554, U+2557, U+2560, U+2563,
TOPRIGHT == "TOPRIGHT"     \*   U+255A, U+255D
MIDLEFT == "MIDLEFT"
MIDRIGHT == "MIDRIGHT"
BOTLEFT == "BOTLEFT"
BOTRIGHT == "BOTRIGHT"
E_ACUTE == "E_ACUTE"       \* U+00C9

FrameWidth == 115          \* the glyphs between the corners of a frame line
InfoWidth == 60            \* info_width = 60
StatBarLength == 15        \* '░' * (15 - value // 10)

Returned(value) == [ok |-> TRUE, value |-> value, error |-> <<>>]
Raised(error) == [ok |-> FALSE, value |-> <<>>, error |-> error]

TopBorder == <<TOPLEFT>> \o Rep(DBL, FrameWidth) \o <<TOPRIGHT>>
MidBorder == <<MIDLEFT>> \o Rep(DBL, FrameWidth) \o <<MIDRIGHT>>
BottomBorder == <<BOTLEFT>> \o Rep(DBL, FrameWidth) \o <<BOTRIGHT>>

\* config.py STAT_NAMES, as STAT_NAMES.get(name, name)
STAT_NAMES(k) ==
    CASE k = <<"h","p">> -> <<"H","P">>
      [] k = <<"a","t","t","a","c","k">> -> <<"A","t","t","a","c","k">>
      [] k = <<"d","e","f","e","n","s","e">> -> <<"D","e","f","e","n","s","e">>
      [] k = <<"s","p","e","c","i","a","l","-","a","t","t","a","c","k">> -> <<"S","p","."," ","A","t","k">>
      [] k = <<"s","p","e","c","i","a","l","-","d","e","f","e","n","s","e">> -> <<"S","p","."," ","D","e","f">>
      [] k = <<"s","p","e","e","d">> -> <<"S","p","e","e","d">>
      [] OTHER -> k

\* config.py NATURES, in the order of the dict
NATURES == <<
    [nature |-> <<"A","d","a","m","a","n","t">>, boost |-> <<"a","t","t","a","c","k">>, reduce |-> <<"s","p","e","c","i","a","l","-","a","t","t","a","c","k">>],
    [nature |-> <<"B","o","l","d">>, boost |-> <<"d","e","f","e","n","s","e">>, reduce |-> <<"a","t","t","a","c","k">>],
    [nature |-> <<"B","r","a","v","e">>, boost |-> <<"a","t","t","a","c","k">>, reduce |-> <<"s","p","e","e","d">>],
    [nature |-> <<"C","a","l","m">>, boost |-> <<"s","p","e","c","i","a","l","-","d","e","f","e","n","s","e">>, reduce |-> <<"a","t","t","a","c","k">>],
    [nature |-> <<"C","a","r","e","f","u","l">>, boost |-> <<"s","p","e","c","i","a","l","-","d","e","f","e","n","s","e">>, reduce |-> <<"s","p","e","c","i","a","l","-","a","t","t","a","c","k">>],
    [nature |-> <<"H","a","s","t","y">>, boost |-> <<"s","p","e","e","d">>, reduce |-> <<"d","e","f","e","n","s","e">>],
    [nature |-> <<"I","m","p","i","s","h">>, boost |-> <<"d","e","f","e","n","s","e">>, reduce |-> <<"s","p","e","c","i","a","l","-","a","t","t","a","c","k">>],
    [nature |-> <<"J","o","l","l","y">>, boost |-> <<"s","p","e","e","d">>, reduce |-> <<"s","p","e","c","i","a","l","-","a","t","t","a","c","k">>],
    [nature |-> <<"L","a","x">>, boost |-> <<"d","e","f","e","n","s","e">>, reduce |-> <<"s","p","e","c","i","a","l","-","d","e","f","e","n","s","e">>],
    [nature |-> <<"L","o","n","e","l","y">>, boost |-> <<"a","t","t","a","c","k">>, reduce |-> <<"d","e","f","e","n","s","e">>],
    [nature |-> <<"M","i","l","d">>, boost |-> <<"s","p","e","c","i","a","l","-","a","t","t","a","c","k">>, reduce |-> <<"d","e","f","e","n","s","e">>],
    [nature |-> <<"M","o","d","e","s","t">>, boost |-> <<"s","p","e","c","i","a","l","-","a","t","t","a","c","k">>, reduce |-> <<"a","t","t","a","c","k">>],
    [nature |-> <<"N","a","i","v","e">>, boost |-> <<"s","p","e","e","d">>, reduce |-> <<"s","p","e","c","i","a","l","-","d","e","f","e","n","s","e">>],
    [nature |-> <<"N","a","u","g","h","t","y">>, boost |-> <<"a","t","t","a","c","k">>, reduce |-> <<"s","p","e","c","i","a","l","-","d","e","f","e","n","s","e">>],
    [nature |-> <<"Q","u","i","e","t">>, boost |-> <<"s","p","e","c","i","a","l","-","a","t","t","a","c","k">>, reduce |-> <<"s","p","e","e","d">>],
    [nature |-> <<"R","a","s","h">>, boost |-> <<"s","p","e","c","i","a","l","-","a","t","t","a","c","k">>, reduce |-> <<"s","p","e","c","i","a","l","-","d","e","f","e","n","s","e">>],
    [nature |-> <<"R","e","l","a","x","e","d">>, boost |-> <<"d","e","f","e","n","s","e">>, reduce |-> <<"s","p","e","e","d">>],
    [nature |-> <<"S","a","s","s","y">>, boost |-> <<"s","p","e","c","i","a","l","-","d","e","f","e","n","s","e">>, reduce |-> <<"s","p","e","e","d">>],
    [nature |-> <<"T","i","m","i","d">>, boost |-> <<"s","p","e","e","d">>, reduce |-> <<"a","t","t","a","c","k">>] >>

\* s.replace(old, new) for one-character old and new
Replace(s, old, new) == [i \in 1..Len(s) |-> IF s[i] = old THEN new ELSE s[i]]

\* DisplayFormatter.format_types
format_types(types) ==
    Join([i \in 1..Len(types) |-> Coloured(TYPE_COLORS(types[i]), Upper(types[i]))],
         <<" ", "/", " ">>)

\* One line of format_stats.
StatsLine(stat) ==
    <<" ", " ">> \o Ljust(STAT_NAMES(stat.name), 8) \o <<":", " ">>
    \o Rjust(Str(stat.base_stat), 3) \o <<" ">>
    \o Rep(FULL, stat.base_stat \div 10)
    \o Rep(SHADE, Max(0, StatBarLength - stat.base_stat \div 10))

\* value // 10 with value None
FloorDivNoneMessage == <<"u","n","s","u","p","p","o","r","t","e","d"," ","o","p","e","r","a","n","d"," ","t","y","p","e","(","s",")"," ","f","o","r"," ","/","/",":"," ","'","N","o","n","e","T","y","p","e","'"," ","a","n","d"," ","'","i","n","t","'">>

\* DisplayFormatter.format_stats; a base_stat of None raises TypeError.
format_stats(stats) ==
    IF \E i \in 1..Len(stats) : stats[i].base_stat = None
    THEN Raised(FloorDivNoneMessage)
    ELSE Returned(Join([i \in 1..Len(stats) |-> StatsLine(stats[i])], <<"\n">>))

\* max(stat_dict, key=stat_dict.get) on an empty dict
MaxOfEmptyMessage == <<"m","a","x","(",")"," ","a","r","g"," ","i","s"," ","a","n"," ","e","m","p","t","y"," ","s","e","q","u","e","n","c","e">>

\* The answer of calculate_optimal_nature for one entry of NATURES.
NatureText(n) ==
    n.nature \o <<" ", "(", "+">> \o Title(Replace(n.boost, "-", " "))
    \o <<",", " ", "-">> \o Title(Replace(n.reduce, "-", " ")) \o <<")">>

\* DisplayFormatter.calculate_optimal_nature, for stats whose base_stat are
\* ints: max and min return the first key with the greatest and the least
\* value; with no stat besides hp, max raises ValueError.
calculate_optimal_nature(stats) ==
    LET others == SelectSeq(stats, LAMBDA s : s.name # <<"h","p">>)
        FirstWith(v) == CHOOSE i \in 1..Len(others) :
                           /\ others[i].base_stat = v
                           /\ \A j \in 1..(i - 1) : others[j].base_stat # v
        greatest == CHOOSE v \in {others[i].base_stat : i \in 1..Len(others)} :
                       \A i \in 1..Len(others) : others[i].base_stat <= v
        least == CHOOSE v \in {others[i].base_stat : i \in 1..Len(others)} :
                    \A i \in 1..Len(others) : others[i].base_stat >= v
        highest_stat == others[FirstWith(greatest)].name
        lowest_stat == others[FirstWith(least)].name
        both == SelectSeq(NATURES, LAMBDA n : n.boost = highest_stat /\ n.reduce = lowest_stat)
        boosting == SelectSeq(NATURES, LAMBDA n : n.boost = highest_stat)
    IN  IF others = <<>> THEN Raised(MaxOfEmptyMessage)
        ELSE IF both # <<>> THEN Returned(NatureText(both[1]))
        ELSE IF boosting # <<>> THEN Returned(NatureText(boosting[1]))
        ELSE Returned(<<"H","a","r","d","y"," ","(","N","e","u","t","r","a","l",")">>)

\* f"{n / 10:.1f}" for an int n >= 0
FormatTenths(n) == Str(n \div 10) \o <<".">> \o Str(n % 10)

\* f"{n:03d}"
FormatId(n) == Rep("0", Max(0, 3 - Len(Str(n)))) \o Str(n)

\* info_lines of display_pokemon, lines 70-103.
InfoLines(data, description, stats, optimal_nature) ==
    LET height_weight == <<"H","e","i","g","h","t",":"," ">> \o FormatTenths(data.height) \o <<"m"," ","|"," ","W","e","i","g","h","t",":"," ">>
                         \o FormatTenths(data.weight) \o <<"k", "g">>
        lines == wrap_text(height_weight, InfoWidth)
                 \o wrap_text(<<"E","g","g"," ","G","r","o","u","p","s",":"," ">> \o data.egg_groups, InfoWidth)
                 \o wrap_text(<<"G","r","o","w","t","h"," ","R","a","t","e",":"," ">> \o data.growth_rate, InfoWidth)
                 \o wrap_text(<<"O","p","t","i","m","a","l"," ","N","a","t","u","r","e",":"," ">> \o optimal_nature, InfoWidth)
                 \o << <<>>, <<"A","B","I","L","I","T","I","E","S",":">> >>
                 \o Flatten([i \in 1..Len(data.abilities) |->
                                wrap_text(data.abilities[i], InfoWidth)])
                 \o << <<>>, <<"D","E","S","C","R","I","P","T","I","O","N",":">> >>
                 \o wrap_text(description, InfoWidth)
                 \o << <<>>, <<"B","A","S","E"," ","S","T","A","T","S",":">> >>
                 \o SplitOn(stats, "\n")
    IN  FitLines(lines, InfoWidth)

\* header_line, lines 116-127.
HeaderLine(data) ==
    LET name_section == <<"#">> \o FormatId(data.id) \o <<" ", "-", " ">> \o Title(data.name)
        type_section == <<"T","y","p","e",":"," ">> \o format_types(data.types)
        available_space == 113 - Len(name_section) - Len(StripAnsi(type_section))
    IN  <<BOX, " ">> \o name_section \o Rep(" ", Max(0, available_space)) \o type_section
        \o <<" ", BOX>>

\* The literal row "POKEDX ENTRY" of the header.
EntryTitleRow ==
    <<BOX>> \o Rep(" ", 52) \o <<"P","O","K",E_ACUTE,"D","X"," ","E","N","T","R","Y">>
    \o Rep(" ", 50) \o <<BOX>>

\* The lines printed by the try block of display_pokemon when nothing raises.
PokedexPanel(data, description, stats, optimal_nature) ==
    LET info == InfoLines(data, description, stats, optimal_nature)
        sprite_lines == NormalizeSpriteColumn(SplitOn(data.sprite, "\n"), Len(info))
        max_height == Len(sprite_lines)
        info_lines == PadToHeight(info, max_height, InfoWidth)
    IN  << <<>>, TopBorder, EntryTitleRow, MidBorder, HeaderLine(data), MidBorder >>
        \o [i \in 1..max_height |->
               <<BOX, " ">> \o sprite_lines[i] \o <<" ", SEP, " ">> \o info_lines[i]
               \o <<" ", BOX>>]
        \o << BottomBorder >>

\* The lines printed by the except clause of display_pokemon.
PokedexFallback(data, error) ==
    << <<"E","r","r","o","r"," ","i","n"," ","d","i","s","p","l","a","y","_","p","o","k","e","m","o","n",":"," ">> \o error,
       <<"P","o","k","e","m","o","n",":"," ">> \o data.name,
       <<"I","D",":"," ">> \o Str(data.id) >>

\* display_pokemon: every section is built first (lines 33-43), in the one
\* try block of the function; the first exception ends the block.
display_pokemon(data) ==
    LET description == data.description
        stats == format_stats(data.stats)
        optimal_nature == calculate_optimal_nature(data.stats)
    IN  IF ~description.ok THEN PokedexFallback(data, description.error)
        ELSE IF ~stats.ok THEN PokedexFallback(data, stats.error)
        ELSE IF ~optimal_nature.ok THEN PokedexFallback(data, optimal_nature.error)
        ELSE PokedexPanel(data, description.value, stats.value, optimal_nature.value)

\* pokemon['stats'] of the Pokemon the model draws from: six stats, equal
\* stats, hp alone, no stats, and a base_stat of None.
StatLists == {
    <<[name |-> <<"h","p">>, base_stat |-> 45], [name |-> <<"a","t","t","a","c","k">>, base_stat |-> 49], [name |-> <<"d","e","f","e","n","s","e">>, base_stat |-> 49], [name |-> <<"s","p","e","c","i","a","l","-","a","t","t","a","c","k">>, base_stat |-> 65], [name |-> <<"s","p","e","c","i","a","l","-","d","e","f","e","n","s","e">>, base_stat |-> 65], [name |-> <<"s","p","e","e","d">>, base_stat |-> 45]>>,
    <<[name |-> <<"h","p">>, base_stat |-> 50], [name |-> <<"a","t","t","a","c","k">>, base_stat |-> 50], [name |-> <<"d","e","f","e","n","s","e">>, base_stat |-> 50], [name |-> <<"s","p","e","c","i","a","l","-","a","t","t","a","c","k">>, base_stat |-> 50], [name |-> <<"s","p","e","c","i","a","l","-","d","e","f","e","n","s","e">>, base_stat |-> 50], [name |-> <<"s","p","e","e","d">>, base_stat |-> 50]>>,
    <<[name |-> <<"h","p">>, base_stat |-> 255], [name |-> <<"a","t","t","a","c","k">>, base_stat |-> 10], [name |-> <<"d","e","f","e","n","s","e">>, base_stat |-> 230], [name |-> <<"s","p","e","c","i","a","l","-","a","t","t","a","c","k">>, base_stat |-> 10], [name |-> <<"s","p","e","c","i","a","l","-","d","e","f","e","n","s","e">>, base_stat |-> 230], [name |-> <<"s","p","e","e","d">>, base_stat |-> 5]>>,
    << [name |-> <<"h","p">>, base_stat |-> 45] >>,
    <<>>,
    << [name |-> <<"h","p">>, base_stat |-> 45],
       [name |-> <<"a","t","t","a","c","k">>, base_stat |-> None] >> }

\* KeyError raised by entry['language'] in get_description
KeyErrorLanguage == <<"'","l","a","n","g","u","a","g","e","'">>

Descriptions == {
    Returned(<<"A"," ","s","t","r","a","n","g","e"," ","s","e","e","d"," ","w","a","s"," ","p","l","a","n","t","e","d"," ","o","n"," ","i","t","s"," ","b","a","c","k"," ","a","t"," ","b","i","r","t","h","."," ","T","h","e"," ","p","l","a","n","t"," ","s","p","r","o","u","t","s"," ","a","n","d"," ","g","r","o","w","s"," ","w","i","t","h"," ","t","h","i","s"," ","P","O","K","e","M","O","N",".">>),
    Returned(<<"N","o"," ","d","e","s","c","r","i","p","t","i","o","n"," ","a","v","a","i","l","a","b","l","e",".">>),
    Raised(KeyErrorLanguage) }

AbilityLists == {
    << <<"N","o"," ","a","b","i","l","i","t","i","e","s"," ","a","v","a","i","l","a","b","l","e",".">> >>,
    << <<"R","u","n","-","a","w","a","y",":"," ","F","l","e","e","s","-","f","r","o","m","-","w","i","l","d","-","P","o","k","e","m","o","n","-","a","n","d","-","c","a","n","n","o","t","-","b","e","-","t","r","a","p","p","e","d","-","b","y","-","m","o","v","e","s","-","o","r","-","a","b","i","l","i","t","i","e","s",".">> >>,
    << <<"O","v","e","r","g","r","o","w",":"," ","P","o","w","e","r","s"," ","u","p"," ","G","r","a","s","s","-","t","y","p","e"," ","m","o","v","e","s"," ","w","h","e","n"," ","t","h","e"," ","P","o","k","e","m","o","n","'","s"," ","H","P"," ","i","s"," ","l","o","w",".">>,
       <<"C","h","l","o","r","o","p","h","y","l","l",":"," ","B","o","o","s","t","s"," ","t","h","e"," ","P","o","k","e","m","o","n","'","s"," ","S","p","e","e","d"," ","s","t","a","t"," ","i","n"," ","h","a","r","s","h"," ","s","u","n","l","i","g","h","t",","," ","a","n","d"," ","t","h","i","s"," ","i","s"," ","a"," ","l","o","n","g"," ","t","e","x","t",".">> >> }

PokedexSprites == { NoSpriteAvailable, Join(RenderedBlock(22, 50), <<"\n">>),
                    Join(RaggedBlock(MaxSpriteRows), <<"\n">>) }

PokedexIdle ==
    /\ dp_data = <<>>
    /\ dp_out = <<>>
    /\ dp_pc = "idle"

PokedexInit ==
    /\ dp_out = <<>>
    /\ dp_pc = "call"
    /\ \E nm \in {<<"b","u","l","b","a","s","a","u","r">>, <<"m","r","-","m","i","m","e","-","g","a","l","a","r">>}, st \in StatLists, d \in Descriptions, ab \in AbilityLists,
          sp \in PokedexSprites :
          dp_data = [name |-> nm, id |-> IF Len(nm) > 9 THEN 1234 ELSE 1,
                     height |-> 7, weight |-> 69,
                     types |-> IF Len(nm) > 9 THEN <<<<"s","h","a","d","o","w">>>> ELSE <<<<"g","r","a","s","s">>, <<"p","o","i","s","o","n">>>>,
                     stats |-> st, description |-> d, abilities |-> ab,
                     egg_groups |-> <<"M","o","n","s","t","e","r",","," ","P","l","a","n","t">>,
                     growth_rate |-> <<"M","e","d","i","u","m"," ","S","l","o","w">>, sprite |-> sp]

DisplayPokemon ==
    /\ dp_pc = "call"
    /\ dp_out' = display_pokemon(dp_data)
    /\ dp_pc' = "done"
    /\ UNCHANGED dp_data

(***************************************************************************)
(* Claims about display_pokemon.                                           *)
(***************************************************************************)
\* Whether the building of a section of dp_data raises.
DescriptionRaises == ~dp_data.description.ok
StatsRaise == ~format_stats(dp_data.stats).ok
NatureRaises == ~calculate_optimal_nature(dp_data.stats).ok
SomeSectionRaises == DescriptionRaises \/ StatsRaise \/ NatureRaises

\* Whether some printed row holds the text at the start of its info column.
InfoRowStartsWith(text) ==
    \E i \in 1..Len(dp_out) :
        /\ Len(dp_out[i]) = FrameWidth + 2
        /\ SubSeq(dp_out[i], 56, 55 + Len(text)) = text

\* C15: an exception raised while building one section of the panel is
\* caught at that section's boundary: the borders and the remaining sections
\* (here the headings of the abilities and, unless it is the section that
\* raised, of the description and of the base stats) are still printed.
C15_SectionErrorKeepsPanel ==
    (dp_pc = "done" /\ SomeSectionRaises) =>
        /\ \E i \in 1..Len(dp_out) : dp_out[i] = TopBorder
        /\ dp_out[Len(dp_out)] = BottomBorder
        /\ InfoRowStartsWith(<<"A","B","I","L","I","T","I","E","S",":">>)
        /\ ~DescriptionRaises => InfoRowStartsWith(<<"D","E","S","C","R","I","P","T","I","O","N",":">>)
        /\ ~StatsRaise => InfoRowStartsWith(<<"B","A","S","E"," ","S","T","A","T","S",":">>)

\* The rows printed between the second rule and the closing border.
BodyRows == SubSeq(dp_out, 7, Len(dp_out) - 1)

\* len(ascii_sprite.split('\n')) and len(info_lines) before any padding.
SpriteLineCount == Len(SplitOn(dp_data.sprite, "\n"))
InfoLineCount ==
    Len(InfoLines(dp_data, dp_data.description.value,
                  format_stats(dp_data.stats).value,
                  calculate_optimal_nature(dp_data.stats).value))

\* C27: when display_pokemon prints the panel, the sprite block and the info
\* block have the same height, max(sprite lines, info lines) and at least
\* 20, and every body row is the border glyph and a space, 50 characters of
\* sprite, " | " and 60 characters of info (113 characters), a space and the
\* border glyph, whatever the sprite text and the info text.
C27_BodyRowsSameHeightAndWidth ==
    (dp_pc = "done" /\ ~SomeSectionRaises) =>
        /\ Len(BodyRows) = Max3(SpriteLineCount, InfoLineCount, 20)
        /\ \A i \in 1..Len(BodyRows) :
              /\ Len(BodyRows[i]) = 2 + (50 + 3 + 60) + 2
              /\ SubSeq(BodyRows[i], 1, 2) = <<BOX, " ">>
              /\ SubSeq(BodyRows[i], 53, 55) = <<" ", SEP, " ">>
              /\ SubSeq(BodyRows[i], 116, 117) = <<" ", BOX>>
              /\ \A j \in 3..52 : BodyRows[i][j] # "\n"

\* Whether some line of the info block or of the sprite is longer than its
\* column before it is cut.
SomeLineIsCut ==
    \/ \E i \in 1..SpriteLineCount : Len(SplitOn(dp_data.sprite, "\n")[i]) > 50
    \/ \E i \in 1..Len(dp_data.abilities) :
          \E l \in 1..Len(wrap_text(dp_data.abilities[i], 60)) :
              Len(wrap_text(dp_data.abilities[i], 60)[l]) > 60

\* The panel of a Pokemon without sprite: the one-line placeholder and fewer
\* than 20 info lines are both padded to 20 rows.
C27_Witness ==
    /\ dp_pc = "done" /\ ~SomeSectionRaises
    /\ dp_data.sprite = NoSpriteAvailable
    /\ InfoLineCount < 20
    /\ Len(BodyRows) = 20


(***************************************************************************)
(* ComparisonHandler.display_comparison: the header, the five sections     *)
(* (sprites, basic information, stats, types, abilities) and the closing   *)
(* border, one step each.  A Pokemon is a record: name, id, height and     *)
(* weight (None written -1), stats, types and abilities (an entry may lack *)
(* its key: has |-> FALSE) and sprites (kind "null" when pokemon['sprites'] *)
(* is None, "nourl" without front_default, "url" with the text that        *)
(* get_sprite_ascii returns).  dc_out holds the lines printed so far.      *)
(***************************************************************************)
SpriteError == <<"S","p","r","i","t","e"," ","e","r","r","o","r">>

\* _get_pokemon_sprite: the lines of the sprite, or of a message.
GetPokemonSprite(pokemon) ==
    CASE pokemon.sprites.kind = "null" -> <<SpriteError>> \o Rep(<<>>, 20)
      [] pokemon.sprites.kind = "nourl" -> NoSpriteBlock
      [] OTHER -> SplitOn(pokemon.sprites.ascii, "\n")

\* The header printed by display_comparison.
ComparisonHeader(name1, name2) ==
    << <<>>, TopBorder,
       <<BOX>> \o Rep(" ", 40) \o name1 \o <<" ","V","S"," ">> \o name2
       \o <<" ","-"," ","C","O","M","P","A","R","I","S","O","N">> \o Rep(" ", 40) \o <<BOX>>,
       MidBorder >>

\* The heading row of a section: the text between left and right spaces.
SectionHeading(left, text, right) ==
    << <<BOX>> \o Rep(" ", left) \o text \o Rep(" ", right) \o <<BOX>>, MidBorder >>

TrueDivNoneMessage == <<"u","n","s","u","p","p","o","r","t","e","d"," ","o","p","e","r","a","n","d"," ","t","y","p","e","(","s",")"," ","f","o","r"," ","/",":"," ","'","N","o","n","e","T","y","p","e","'"," ","a","n","d"," ","'","i","n","t","'">>

\* _display_basic_info_comparison
BasicInfoSection(pokemon1, pokemon2) ==
    LET lines == <<
            <<"P","o","k","e_acute","d","e","x"," ","I","D",":"," "," "," "," "," "," ","#">> \o Ljust(Str(pokemon1.id), 8) \o Rep(" ", 24)
                \o <<"#">> \o Ljust(Str(pokemon2.id), 8),
            <<"H","e","i","g","h","t",":"," "," "," "," "," "," "," "," "," "," ">> \o Ljust(FormatTenths(pokemon1.height), 8) \o <<"m">> \o Rep(" ", 21)
                \o Ljust(FormatTenths(pokemon2.height), 8) \o <<"m">>,
            <<"W","e","i","g","h","t",":"," "," "," "," "," "," "," "," "," "," ">> \o Ljust(FormatTenths(pokemon1.weight), 8) \o <<"k","g">> \o Rep(" ", 21)
                \o Ljust(FormatTenths(pokemon2.weight), 8) \o <<"k","g">> >>
    IN  SectionHeading(43, <<"B","A","S","I","C"," ","I","N","F","O","R","M","A","T","I","O","N">>, 43)
        \o (IF None \in {pokemon1.height, pokemon2.height, pokemon1.weight, pokemon2.weight}
            THEN << <<"E","r","r","o","r"," ","d","i","s","p","l","a","y","i","n","g"," ","b","a","s","i","c"," ","i","n","f","o",":"," ">> \o TrueDivNoneMessage >>
            ELSE [i \in 1..3 |-> Framed(Center(lines[i], ComparisonCenterWidth))]
                 \o <<BlankRow(ComparisonBlankWidth)>>)

\* stat_order of _display_stats_comparison
StatOrder == <<
    [key |-> <<"h","p">>, name |-> <<"H","P">>],
    [key |-> <<"a","t","t","a","c","k">>, name |-> <<"A","t","t","a","c","k">>],
    [key |-> <<"d","e","f","e","n","s","e">>, name |-> <<"D","e","f","e","n","s","e">>],
    [key |-> <<"s","p","e","c","i","a","l","-","a","t","t","a","c","k">>, name |-> <<"S","p","."," ","A","t","k">>],
    [key |-> <<"s","p","e","c","i","a","l","-","d","e","f","e","n","s","e">>, name |-> <<"S","p","."," ","D","e","f">>],
    [key |-> <<"s","p","e","e","d">>, name |-> <<"S","p","e","e","d">>] >>

\* stats.get(stat_key, 0) on the dict built from pokemon['stats']: the last
\* entry of a name is the one the dict keeps.
StatGet(stats, stat_key) ==
    LET found == SelectSeq(stats, LAMBDA s : s.name = stat_key)
    IN  IF found = <<>> THEN 0 ELSE found[Len(found)].base_stat

RECURSIVE SumSeq(_)
SumSeq(s) == IF s = <<>> THEN 0 ELSE Head(s) + SumSeq(Tail(s))

\* sum(stats.values())
StatTotal(stats) ==
    LET keys == {stats[i].name : i \in 1..Len(stats)}
        firsts == SelectSeq(Indices(stats),
                            LAMBDA i : \A j \in 1..(i - 1) : stats[j].name # stats[i].name)
    IN  SumSeq([k \in 1..Len(firsts) |-> StatGet(stats, stats[firsts[k]].name)])

\* A faulty variant of StatsSection: the exception is swallowed without a
\* notice.
StatsSection_silent(pokemon1, pokemon2) ==
    LET Lacks(stats) == \E i \in 1..Len(stats) : ~stats[i].has
    IN  SectionHeading(45, <<"B","A","S","E"," ","S","T","A","T","S">>, 47)
        \o (IF Lacks(pokemon1.stats) \/ Lacks(pokemon2.stats) THEN <<>>
            ELSE <<BlankRow(ComparisonBlankWidth)>>)

\* _display_stats_comparison
StatsSection(pokemon1, pokemon2) ==
    LET stats1 == pokemon1.stats
        stats2 == pokemon2.stats
        Lacks(stats) == \E i \in 1..Len(stats) : ~stats[i].has
    IN  SectionHeading(45, <<"B","A","S","E"," ","S","T","A","T","S">>, 47)
        \o (IF Lacks(stats1) \/ Lacks(stats2)
            THEN << <<"E","r","r","o","r"," ","d","i","s","p","l","a","y","i","n","g"," ","s","t","a","t","s",":"," ">> \o <<"'","b","a","s","e","_","s","t","a","t","'">> >>
            ELSE [k \in 1..Len(StatOrder) |->
                     StatComparisonLine(StatOrder[k].name, StatGet(stats1, StatOrder[k].key),
                                        StatGet(stats2, StatOrder[k].key), FALSE)]
                 \o << BlankRow(ComparisonBlankWidth),
                       StatComparisonLine(<<"T","O","T","A","L">>, StatTotal(stats1), StatTotal(stats2), TRUE),
                       BlankRow(ComparisonBlankWidth) >>)

\* " / ".join(types) if types else "No types"
TypesText(types) ==
    IF types = <<>> THEN <<"N","o"," ","t","y","p","e","s">>
    ELSE Join([i \in 1..Len(types) |-> Title(types[i].name)], <<" ", "/", " ">>)

\* f"{left:^45}     VS     {right:^45}", centred and framed
VersusLine(left, right) ==
    Framed(Center(FormatCenter(left, 45) \o Rep(" ", 5) \o <<"V", "S">> \o Rep(" ", 5)
                  \o FormatCenter(right, 45),
                  ComparisonCenterWidth))

\* _display_types_comparison
TypesSection(pokemon1, pokemon2) ==
    LET Lacks(types) == \E i \in 1..Len(types) : ~types[i].has
    IN  SectionHeading(47, <<"T","Y","P","E","S">>, 50)
        \o (IF Lacks(pokemon1.types) \/ Lacks(pokemon2.types)
            THEN << <<"E","r","r","o","r"," ","d","i","s","p","l","a","y","i","n","g"," ","t","y","p","e","s",":"," ">> \o <<"'","t","y","p","e","'">> >>
            ELSE << VersusLine(TypesText(pokemon1.types), TypesText(pokemon2.types)),
                    BlankRow(ComparisonBlankWidth) >>)

\* ability['ability']['name'].replace('-', ' ').title(), " (Hidden)" added
AbilityName(ability) ==
    Title(Replace(ability.name, "-", " "))
    \o (IF ability.is_hidden THEN <<" ","(","H","i","d","d","e","n",")">> ELSE <<>>)

\* _display_abilities_comparison
AbilitiesSection(pokemon1, pokemon2) ==
    LET abilities1 == pokemon1.abilities
        abilities2 == pokemon2.abilities
        Lacks(abilities) == \E i \in 1..Len(abilities) : ~abilities[i].has
        max_abilities == Max3(Len(abilities1), Len(abilities2), 1)
    IN  SectionHeading(45, <<"A","B","I","L","I","T","I","E","S">>, 47)
        \o (IF Lacks(abilities1) \/ Lacks(abilities2)
            THEN << <<"E","r","r","o","r"," ","d","i","s","p","l","a","y","i","n","g"," ","a","b","i","l","i","t","i","e","s",":"," ">> \o <<"'","a","b","i","l","i","t","y","'">> >>
            ELSE [i \in 1..max_abilities |->
                     VersusLine(IF i <= Len(abilities1) THEN AbilityName(abilities1[i]) ELSE <<>>,
                                IF i <= Len(abilities2) THEN AbilityName(abilities2[i]) ELSE <<>>)]
                 \o <<BlankRow(ComparisonBlankWidth)>>)

\* The Pokemon the model draws from.  bad is the set of the sections whose
\* data are malformed.
GoodStats(base) ==
    [k \in 1..Len(StatOrder) |->
        [name |-> StatOrder[k].key, has |-> TRUE, base_stat |-> base + 7 * k]]

ComparedPokemon(nm, base, bad) ==
    [name |-> nm, id |-> base, weight |-> 10 * base + 9,
     height |-> IF "basic" \in bad THEN None ELSE base,
     stats |-> IF "stats" \in bad
               THEN <<[name |-> <<"h","p">>, has |-> FALSE, base_stat |-> 0]>>
               ELSE GoodStats(base),
     types |-> IF "types" \in bad
               THEN <<[name |-> <<>>, has |-> FALSE]>>
               ELSE IF base > 50 THEN <<>>
               ELSE <<[name |-> <<"g","r","a","s","s">>, has |-> TRUE], [name |-> <<"p","o","i","s","o","n">>, has |-> TRUE]>>,
     abilities |-> IF "abilities" \in bad
                   THEN <<[name |-> <<>>, has |-> FALSE, is_hidden |-> FALSE]>>
                   ELSE IF base > 50 THEN <<>>
                   ELSE <<[name |-> <<"o","v","e","r","g","r","o","w">>, has |-> TRUE, is_hidden |-> FALSE],
                          [name |-> <<"t","h","i","c","k","-","f","a","t">>, has |-> TRUE, is_hidden |-> TRUE]>>,
     sprites |-> IF "sprites" \in bad THEN [kind |-> "null", ascii |-> <<>>]
                 ELSE IF base > 50 THEN [kind |-> "nourl", ascii |-> <<>>]
                 ELSE [kind |-> "url", ascii |-> Join(RenderedBlock(22, 50), <<"\n">>)]]

Sections == {"sprites", "basic", "stats", "types", "abilities"}

PanelIdle ==
    /\ dc_pokemon1 = <<>>
    /\ dc_pokemon2 = <<>>
    /\ dc_out = <<>>
    /\ dc_pc = "idle"

PanelInit ==
    /\ dc_out = <<>>
    /\ dc_pc = "header"
    /\ \E bad \in SUBSET Sections :
          dc_pokemon1 = ComparedPokemon(<<"b","u","l","b","a","s","a","u","r">>, 45, bad)
    /\ \E bad \in {{}, {"stats"}, Sections} :
          dc_pokemon2 = ComparedPokemon(<<"m","r","-","m","i","m","e">>, 122, bad)

PanelData == <<dc_pokemon1, dc_pokemon2>>

PrintHeader ==
    /\ dc_pc = "header"
    /\ dc_out' = dc_out \o ComparisonHeader(Title(dc_pokemon1.name), Title(dc_pokemon2.name))
    /\ dc_pc' = "sprites"
    /\ UNCHANGED PanelData

PrintSprites ==
    /\ dc_pc = "sprites"
    /\ dc_out' = dc_out \o DisplaySpritesSideBySide(GetPokemonSprite(dc_pokemon1),
                                                   GetPokemonSprite(dc_pokemon2),
                                                   Title(dc_pokemon1.name),
                                                   Title(dc_pokemon2.name))
    /\ dc_pc' = "basic"
    /\ UNCHANGED PanelData

PrintBasicInfo ==
    /\ dc_pc = "basic"
    /\ dc_out' = dc_out \o BasicInfoSection(dc_pokemon1, dc_pokemon2)
    /\ dc_pc' = "stats"
    /\ UNCHANGED PanelData

PrintStats ==
    /\ dc_pc = "stats"
    /\ dc_out' = dc_out \o StatsSection(dc_pokemon1, dc_pokemon2)
    /\ dc_pc' = "types"
    /\ UNCHANGED PanelData

PrintTypes ==
    /\ dc_pc = "types"
    /\ dc_out' = dc_out \o TypesSection(dc_pokemon1, dc_pokemon2)
    /\ dc_pc' = "abilities"
    /\ UNCHANGED PanelData

PrintAbilities ==
    /\ dc_pc = "abilities"
    /\ dc_out' = dc_out \o AbilitiesSection(dc_pokemon1, dc_pokemon2)
    /\ dc_pc' = "border"
    /\ UNCHANGED PanelData

PrintClosingBorder ==
    /\ dc_pc = "border"
    /\ dc_out' = Append(dc_out, BottomBorder)
    /\ dc_pc' = "done"
    /\ UNCHANGED PanelData


(***************************************************************************)
(* Claims about display_comparison.                                        *)
(***************************************************************************)
\* The sections whose data are malformed in one of the two Pokemon.
Malformed(pokemon) ==
    (IF pokemon.sprites.kind = "null" THEN {"sprites"} ELSE {})
    \cup (IF None \in {pokemon.height, pokemon.weight} THEN {"basic"} ELSE {})
    \cup (IF \E i \in 1..Len(pokemon.stats) : ~pokemon.stats[i].has THEN {"stats"} ELSE {})
    \cup (IF \E i \in 1..Len(pokemon.types) : ~pokemon.types[i].has THEN {"types"} ELSE {})
    \cup (IF \E i \in 1..Len(pokemon.abilities) : ~pokemon.abilities[i].has
          THEN {"abilities"} ELSE {})
RaisingSections == Malformed(dc_pokemon1) \cup Malformed(dc_pokemon2)

\* The rows that open the sections, in the order of display_comparison: the
\* names row of the sprites and the four heading rows.
SectionOpeners == <<
    ComparisonNamesRow(Title(dc_pokemon1.name), Title(dc_pokemon2.name)),
    SectionHeading(43, <<"B","A","S","I","C"," ","I","N","F","O","R","M","A","T","I","O","N">>, 43)[1],
    SectionHeading(45, <<"B","A","S","E"," ","S","T","A","T","S">>, 47)[1],
    SectionHeading(47, <<"T","Y","P","E","S">>, 50)[1],
    SectionHeading(45, <<"A","B","I","L","I","T","I","E","S">>, 47)[1] >>
SectionOrder == <<"sprites", "basic", "stats", "types", "abilities">>

\* The text a notice of a section starts with ("Sprite error" stands in the
\* sprite column of a sprite row).
NoticeText == <<
    SpriteError, <<"E","r","r","o","r"," ","d","i","s","p","l","a","y","i","n","g"," ","b","a","s","i","c"," ","i","n","f","o",":"," ">>, <<"E","r","r","o","r"," ","d","i","s","p","l","a","y","i","n","g"," ","s","t","a","t","s",":"," ">>, <<"E","r","r","o","r"," ","d","i","s","p","l","a","y","i","n","g"," ","t","y","p","e","s",":"," ">>, <<"E","r","r","o","r"," ","d","i","s","p","l","a","y","i","n","g"," ","a","b","i","l","i","t","i","e","s",":"," ">> >>

\* Where the k-th section opens in the output (0 when it does not).
OpenerAt(k) ==
    IF \E i \in 1..Len(dc_out) : dc_out[i] = SectionOpeners[k]
    THEN CHOOSE i \in 1..Len(dc_out) : dc_out[i] = SectionOpeners[k]
    ELSE 0

\* Whether line holds text somewhere.
Holds(line, text) ==
    \E i \in 1..(Len(line) - Len(text) + 1) : SubSeq(line, i, i + Len(text) - 1) = text

\* Whether the k-th section's notice stands after its opener and before the
\* opener of the next section (or the closing border).
NoticeIn(k) ==
    \E i \in (OpenerAt(k) + 1)..(IF k < 5 THEN OpenerAt(k + 1) - 1 ELSE Len(dc_out) - 1) :
        Holds(dc_out[i], NoticeText[k])

\* C16: if the formatting of any of the five sections raises, a notice is
\* printed within that section, every section, the later ones included, is
\* still opened in order, the closing border is the last line, and the
\* notice of the whole panel ("Error displaying comparison") is never printed.
C16_SectionErrorsStayInSection ==
    dc_pc = "done" =>
        /\ \A k \in 1..5 : OpenerAt(k) > 0
        /\ \A k \in 1..4 : OpenerAt(k) < OpenerAt(k + 1)
        /\ \A k \in 1..5 : SectionOrder[k] \in RaisingSections => NoticeIn(k)
        /\ dc_out[Len(dc_out)] = BottomBorder
        /\ \A i \in 1..(Len(dc_out) - 1) : dc_out[i] # BottomBorder
        /\ \A i \in 1..Len(dc_out) : ~Holds(dc_out[i], <<"E","r","r","o","r"," ","d","i","s","p","l","a","y","i","n","g"," ","c","o","m","p","a","r","i","s","o","n",":"," ">>)

\* C16 witness: the stats of the first Pokemon lack a base_stat and nothing
\* else is malformed; the panel is complete, with the notice of the stats
\* section before the types section and the closing border last.
C16_Witness ==
    /\ dc_pc = "done"
    /\ RaisingSections = {"stats"}
    /\ Malformed(dc_pokemon2) = {}
    /\ NoticeIn(3)
    /\ OpenerAt(4) > OpenerAt(3)
    /\ OpenerAt(5) > OpenerAt(4)
    /\ dc_out[Len(dc_out)] = BottomBorder



(***************************************************************************)
(* Claims about the placeholders and the outcomes of get_sprite_ascii.     *)
(***************************************************************************)
\* The block _get_pokemon_sprite makes of the outcome of the call.
PlaceholderBlock ==
    GetPokemonSprite([sprites |-> [kind |-> IF sp_url = "none" THEN "nourl" ELSE "url",
                                   ascii |-> sp_result]])

\* The placeholder block as the comparison panel shows it beside a block of
\* other lines.
PlaceholderShown(other) ==
    NormalizeBlock(PlaceholderBlock, ComparisonSpriteWidth,
                   Max3(Len(PlaceholderBlock), other, MinComparisonHeight))

PlaceholderByCause ==
    /\ sp_result = IF sp_url = "none" THEN NoSpriteAvailable ELSE FailedToLoadSprite
    /\ NoSpriteAvailable # FailedToLoadSprite

\* C17 as stated: the placeholder for "no image" and the one for "fetch
\* fails" differ in content and both have the dimensions of the default
\* sprite block: its number of lines and its line width.
C17_PlaceholdersHaveSpriteDimensions ==
    sp_pc = "placeholder" =>
        /\ PlaceholderByCause
        /\ Len(SpriteRows) = SpriteHeight(DefaultSpriteWidth, sp_src)
        /\ AllRowsHave(DefaultSpriteWidth)

\* C17 amended: the two placeholders differ in content and each is a single
\* line no wider than the sprite column (19 and 21 characters); it is the
\* comparison panel that gives them identical dimensions, by padding either
\* to max(height of the other block, 25) lines of 50 characters, the message
\* on the first line and every other line blank.
C17_PlaceholdersPaddedToSameDimensions ==
    sp_pc = "placeholder" =>
        /\ PlaceholderByCause
        /\ Len(SpriteRows) = 1
        /\ Len(sp_result) = (IF sp_url = "none" THEN 19 ELSE 21)
        /\ \A other \in 0..MaxSpriteRows :
              LET shown == PlaceholderShown(other)
              IN  /\ Len(shown) = Max(other, MinComparisonHeight)
                  /\ \A i \in 1..Len(shown) : Len(shown[i]) = ComparisonSpriteWidth
                  /\ shown[1] = Ljust(sp_result, ComparisonSpriteWidth)
                  /\ \A i \in 2..Len(shown) : shown[i] = Rep(" ", ComparisonSpriteWidth)

\* C17 witness: a fetch answered 404 gave the one-line placeholder, which the
\* panel shows as 25 lines of 50 characters.
C17_Witness ==
    /\ sp_pc = "placeholder"
    /\ sp_url = "url"
    /\ sp_status = 404
    /\ sp_fetches = 1
    /\ sp_result = FailedToLoadSprite
    /\ Len(PlaceholderBlock) = 1
    /\ Len(PlaceholderShown(0)) = MinComparisonHeight
    /\ Len(PlaceholderShown(0)[MinComparisonHeight]) = ComparisonSpriteWidth

\* C18: get_sprite_ascii never lets an exception out: a missing URL, a
\* status other than 200, a failed fetch, a failed decode and a computed
\* height of 0 all end in a returned, non-empty string; a call fetches at
\* most once, and not at all without a URL.
C18_AlwaysReturnsOneFetch ==
    /\ sp_pc \in {"idle", "call", "placeholder", "error", "rendered"}
    /\ sp_fetches <= 1
    /\ sp_pc = "call" => sp_fetches = 0
    /\ sp_pc \in {"placeholder", "error", "rendered"} =>
          /\ Len(sp_result) > 0
          /\ \A i \in 1..Len(sp_result) : sp_result[i] \in STRING
          /\ sp_fetches = (IF sp_url = "none" THEN 0 ELSE 1)
    /\ sp_pc = "placeholder" => sp_result \in {NoSpriteAvailable, FailedToLoadSprite}
    /\ sp_pc = "error" =>
          /\ Take(sp_result, Len(ErrorGeneratingPrefix)) = ErrorGeneratingPrefix
          /\ \/ sp_status = NoResponse
             \/ ~sp_decodes
             \/ SpriteHeight(sp_width, sp_src) = 0
    /\ sp_pc = "rendered" => Len(sp_indices) = SpriteHeight(sp_width, sp_src)

\* C18 witness: the picture was fetched once and decoded, the computed
\* height was 0, and the call returned the message of the resize error.
C18_Witness ==
    /\ sp_pc = "error"
    /\ sp_status = 200
    /\ sp_decodes
    /\ SpriteHeight(sp_width, sp_src) = 0
    /\ sp_fetches = 1
    /\ sp_result = ErrorGenerating(ResizeErrorMessage)



(***************************************************************************)
(* PokedexTerminal.run and process_command (main.py): the command loop.    *)
(* The data of a Pokemon is written as its number, None as -1.  tm_log     *)
(* holds, for every query processed, the query, what the terminal did      *)
(* (out) and the Pokemon it did it for.                                    *)
(***************************************************************************)
MaxCommands == 2   \* most queries typed in one run

\* A faulty variant of StartsWith that finds no prefix.
StartsWith_never(s, prefix) == FALSE

\* s.startswith(prefix)
StartsWith(s, prefix) == Len(s) >= Len(prefix) /\ SubSeq(s, 1, Len(prefix)) = prefix

RECURSIVE Strip(_)
\* s.strip()
Strip(s) ==
    IF s = <<>> THEN s
    ELSE IF IsSpace(Head(s)) THEN Strip(Tail(s))
    ELSE IF IsSpace(s[Len(s)]) THEN Strip(SubSeq(s, 1, Len(s) - 1))
    ELSE s

\* What the API knows: the queries answered with status 200 and the number
\* of the Pokemon each one names.
KnownPokemon ==
    { <<<<"p","i","k","a","c","h","u">>, 25>>, <<<<"2","5">>, 25>>, <<<<"r","a","i","c","h","u">>, 26>> }

\* api_client.get_pokemon_data: the query lowered and stripped, None when
\* the API answers with another status than 200.
get_pokemon_data(name_or_id) ==
    LET query == Strip(Lower(name_or_id))
    IN  IF \E k \in KnownPokemon : k[1] = query
        THEN (CHOOSE k \in KnownPokemon : k[1] = query)[2]
        ELSE None

\* PokedexCore.search_pokemon: displays the Pokemon or the not-found
\* message; no path of it returns a value, so the call evaluates to None.
search_pokemon(query) ==
    LET data == get_pokemon_data(query)
    IN  IF data = None
        THEN [out |-> "not found", pokemon |-> None, result |-> None]
        ELSE [out |-> "displayed", pokemon |-> data, result |-> None]

RoutePrefixes == {<<"r","o","u","t","e"," ">>,
                 <<"v","i","c","t","o","r","y"," ","r","o","a","d">>,
                 <<"s","a","f","a","r","i"," ","z","o","n","e">>,
                 <<"v","i","r","i","d","i","a","n"," ","f","o","r","e","s","t">>,
                 <<"m","o","u","n","t"," ","s","i","l","v","e","r">>}
MovePrefixes == {<<"m","o","v","e","s"," ","g","e","n">>,
                <<"l","e","a","r","n","s","e","t"," ","g","e","n">>,
                <<"t","m"," ","g","e","n">>,
                <<"e","g","g"," ","g","e","n">>,
                <<"t","u","t","o","r"," ","g","e","n">>}

AnyStartsWith(s, prefixes) == \E p \in prefixes : StartsWith(s, p)

\* A faulty variant of ForCurrent that runs the handler without the test.
ForCurrent_unchecked(current, rejected, executed) ==
    [out |-> executed, pokemon |-> current]

\* if not self.current_pokemon: reject, else run the handler for it
ForCurrent(current, rejected, executed) ==
    IF current = None
    THEN [out |-> rejected, pokemon |-> None]
    ELSE [out |-> executed, pokemon |-> current]

\* process_command: continue is the returned flag, current the value of
\* self.current_pokemon after the call.
process_command(query_in, current) ==
    LET query == Strip(query_in)
        query_lower == Lower(query)
        Done(out) == [continue |-> TRUE, current |-> current, out |-> out, pokemon |-> None]
        Needs(r) == [continue |-> TRUE, current |-> current, out |-> r.out,
                     pokemon |-> r.pokemon]
    IN  IF query = <<>> THEN Done("nothing")
        ELSE IF query_lower \in {<<"h","e","l","p">>, <<"c">>} THEN Done("help")
        ELSE IF query_lower \in {<<"e","x","i","t">>, <<"q","u","i","t">>}
             THEN [continue |-> FALSE, current |-> current, out |-> "bye", pokemon |-> None]
        ELSE IF query_lower = <<"g","a","m","e","s">> THEN Done("games")
        ELSE IF StartsWith(query_lower, <<"c","o","m","p","a","r","e"," ">>) THEN Done("comparison")
        ELSE IF StartsWith(query_lower, <<"b","r","e","e","d">>) THEN Done("breeding")
        ELSE IF AnyStartsWith(query_lower, RoutePrefixes) THEN Done("route")
        ELSE IF query_lower = <<"e","v","o">>
             THEN Needs(ForCurrent(current, "evolution rejected", "evolution"))
        ELSE IF AnyStartsWith(query_lower, MovePrefixes)
             THEN Needs(ForCurrent(current, "moves rejected", "moves"))
        ELSE IF StartsWith(query_lower, <<"l","o","c","a","t","i","o","n"," ">>)
             THEN Needs(ForCurrent(current, "locations rejected", "locations"))
        ELSE LET found == search_pokemon(query)
             IN  [continue |-> TRUE,
                  current |-> IF found.result # None THEN found.result ELSE current,
                  out |-> found.out,
                  pokemon |-> found.pokemon]

\* debug_main.test_process_command: the returned flag.
test_process_command(query_in) ==
    LET query_lower == Lower(Strip(query_in))
    IN  IF query_lower \in {<<"h","e","l","p">>, <<"c">>} THEN TRUE
        ELSE IF StartsWith(query_lower, <<"c","o","m","p","a","r","e"," ">>) THEN TRUE
        ELSE IF query_lower \in {<<"e","x","i","t">>, <<"q","u","i","t">>} THEN FALSE
        ELSE TRUE

\* The queries typed at the prompt.
TerminalQueries ==
    { <<>>,
      <<"\t","Q","u","i","t"," ">>,
      <<" ","E","X","I","T">>,
      <<" ","H","e","l","p">>,
      <<"C">>,
      <<"c","o","m","p","a","r","e">>,
      <<"e","x","i","t"," ","n","o","w">>,
      <<"h","e","l","p">>,
      <<"c">>,
      <<"e","x","i","t">>,
      <<"q","u","i","t">>,
      <<"g","a","m","e","s">>,
      <<"c","o","m","p","a","r","e"," ","p","i","k","a","c","h","u"," ","r","a","i","c","h","u">>,
      <<"b","r","e","e","d"," ","p","i","k","a","c","h","u"," ","d","i","t","t","o">>,
      <<"r","o","u","t","e"," ","1","0","4">>,
      <<"v","i","c","t","o","r","y"," ","r","o","a","d">>,
      <<"e","v","o">>,
      <<" ","E","V","O"," ">>,
      <<"m","o","v","e","s"," ","g","e","n"," ","3">>,
      <<"l","e","a","r","n","s","e","t"," ","g","e","n"," ","3">>,
      <<"t","m"," ","g","e","n"," ","3"," ","e","m","e","r","a","l","d">>,
      <<"e","g","g"," ","g","e","n"," ","3">>,
      <<"t","u","t","o","r"," ","g","e","n"," ","3">>,
      <<"l","o","c","a","t","i","o","n"," ","g","e","n"," ","3">>,
      <<"l","o","c","a","t","i","o","n"," ","e","m","e","r","a","l","d">>,
      <<"l","o","c","a","t","i","o","n">>,
      <<"p","i","k","a","c","h","u">>,
      <<"R","a","i","c","h","u">>,
      <<"2","5">>,
      <<"m","i","s","s","i","n","g","n","o">> }

TerminalIdle ==
    /\ tm_current = None
    /\ tm_log = <<>>
    /\ tm_pc = "idle"

\* __init__: self.current_pokemon = None
TerminalInit ==
    /\ tm_current = None
    /\ tm_log = <<>>
    /\ tm_pc = "prompt"

\* One turn of the loop of run: input() and process_command; the loop ends
\* when process_command returns False.
ProcessCommand ==
    /\ tm_pc = "prompt"
    /\ Len(tm_log) < MaxCommands
    /\ \E query \in TerminalQueries :
          LET done == process_command(query, tm_current)
          IN  /\ tm_current' = done.current
              /\ tm_log' = Append(tm_log, [query |-> query, out |-> done.out,
                                           pokemon |-> done.pokemon])
              /\ tm_pc' = IF done.continue THEN "prompt" ELSE "exited"

\* except KeyboardInterrupt: print the goodbye and break
Interrupt ==
    /\ tm_pc = "prompt"
    /\ tm_pc' = "interrupted"
    /\ UNCHANGED <<tm_current, tm_log>>

(***************************************************************************)
(* Claims about the command loop.                                          *)
(***************************************************************************)
NeedsCurrent == {"evolution", "moves", "locations"}
Rejections == {"evolution rejected", "moves rejected", "locations rejected"}

\* C19: after a search that finds and displays a Pokemon, that Pokemon is
\* the current Pokemon, and the command for the current Pokemon that follows
\* it (evo, moves/learnset/tm/egg/tutor gen X, location ...) is executed for
\* it and not rejected with the search-first message.
C19_SearchMakesCurrent ==
    \A i \in 1..Len(tm_log) :
        tm_log[i].out = "displayed" =>
            /\ i = Len(tm_log) => tm_current = tm_log[i].pokemon
            /\ i < Len(tm_log) =>
                  /\ tm_log[i + 1].out \notin Rejections
                  /\ tm_log[i + 1].out \in NeedsCurrent =>
                        tm_log[i + 1].pokemon = tm_log[i].pokemon



(***************************************************************************)
(* The game filter of the move and location queries (config.py,            *)
(* move_handler.py, location_handler.py).  Names are strings; a query      *)
(* without a game has the empty name, which the code treats as it treats   *)
(* None: it only tests the truth of specific_game.                         *)
(***************************************************************************)
\* d.get(k, default), and k in d
DictGet(d, k, default) == IF k \in DOMAIN d THEN d[k] ELSE default

InSeq(x, s) == \E i \in 1..Len(s) : s[i] = x

\* config.GEN_VERSION_GROUPS: for generation 1..9 the version groups of
\* every key.
GEN_VERSION_GROUPS ==
    << (* 1 *) ((<<"a","l","l">> :> <<<<"r","e","d","-","b","l","u","e">>,<<"y","e","l","l","o","w">>>>) @@ (<<"r","e","d","-","b","l","u","e">> :> <<<<"r","e","d","-","b","l","u","e">>>>) @@ (<<"y","e","l","l","o","w">> :> <<<<"y","e","l","l","o","w">>>>)),
       (* 2 *) ((<<"a","l","l">> :> <<<<"g","o","l","d","-","s","i","l","v","e","r">>,<<"c","r","y","s","t","a","l">>>>) @@ (<<"g","o","l","d","-","s","i","l","v","e","r">> :> <<<<"g","o","l","d","-","s","i","l","v","e","r">>>>) @@ (<<"c","r","y","s","t","a","l">> :> <<<<"c","r","y","s","t","a","l">>>>)),
       (* 3 *) ((<<"a","l","l">> :> <<<<"r","u","b","y","-","s","a","p","p","h","i","r","e">>,<<"e","m","e","r","a","l","d">>,<<"f","i","r","e","r","e","d","-","l","e","a","f","g","r","e","e","n">>>>) @@ (<<"r","u","b","y","-","s","a","p","p","h","i","r","e">> :> <<<<"r","u","b","y","-","s","a","p","p","h","i","r","e">>>>) @@ (<<"e","m","e","r","a","l","d">> :> <<<<"e","m","e","r","a","l","d">>>>) @@ (<<"f","i","r","e","r","e","d","-","l","e","a","f","g","r","e","e","n">> :> <<<<"f","i","r","e","r","e","d","-","l","e","a","f","g","r","e","e","n">>>>)),
       (* 4 *) ((<<"a","l","l">> :> <<<<"d","i","a","m","o","n","d","-","p","e","a","r","l">>,<<"p","l","a","t","i","n","u","m">>,<<"h","e","a","r","t","g","o","l","d","-","s","o","u","l","s","i","l","v","e","r">>>>) @@ (<<"d","i","a","m","o","n","d","-","p","e","a","r","l">> :> <<<<"d","i","a","m","o","n","d","-","p","e","a","r","l">>>>) @@ (<<"p","l","a","t","i","n","u","m">> :> <<<<"p","l","a","t","i","n","u","m">>>>) @@ (<<"h","e","a","r","t","g","o","l","d","-","s","o","u","l","s","i","l","v","e","r">> :> <<<<"h","e","a","r","t","g","o","l","d","-","s","o","u","l","s","i","l","v","e","r">>>>)),
       (* 5 *) ((<<"a","l","l">> :> <<<<"b","l","a","c","k","-","w","h","i","t","e">>,<<"b","l","a","c","k","-","2","-","w","h","i","t","e","-","2">>>>) @@ (<<"b","l","a","c","k","-","w","h","i","t","e">> :> <<<<"b","l","a","c","k","-","w","h","i","t","e">>>>) @@ (<<"b","l","a","c","k","-","2","-","w","h","i","t","e","-","2">> :> <<<<"b","l","a","c","k","-","2","-","w","h","i","t","e","-","2">>>>)),
       (* 6 *) ((<<"a","l","l">> :> <<<<"x","-","y">>,<<"o","m","e","g","a","-","r","u","b","y","-","a","l","p","h","a","-","s","a","p","p","h","i","r","e">>>>) @@ (<<"x","-","y">> :> <<<<"x","-","y">>>>) @@ (<<"o","m","e","g","a","-","r","u","b","y","-","a","l","p","h","a","-","s","a","p","p","h","i","r","e">> :> <<<<"o","m","e","g","a","-","r","u","b","y","-","a","l","p","h","a","-","s","a","p","p","h","i","r","e">>>>)),
       (* 7 *) ((<<"a","l","l">> :> <<<<"s","u","n","-","m","o","o","n">>,<<"u","l","t","r","a","-","s","u","n","-","u","l","t","r","a","-","m","o","o","n">>>>) @@ (<<"s","u","n","-","m","o","o","n">> :> <<<<"s","u","n","-","m","o","o","n">>>>) @@ (<<"u","l","t","r","a","-","s","u","n","-","u","l","t","r","a","-","m","o","o","n">> :> <<<<"u","l","t","r","a","-","s","u","n","-","u","l","t","r","a","-","m","o","o","n">>>>)),
       (* 8 *) ((<<"a","l","l">> :> <<<<"s","w","o","r","d","-","s","h","i","e","l","d">>>>) @@ (<<"s","w","o","r","d","-","s","h","i","e","l","d">> :> <<<<"s","w","o","r","d","-","s","h","i","e","l","d">>>>)),
       (* 9 *) ((<<"a","l","l">> :> <<<<"s","c","a","r","l","e","t","-","v","i","o","l","e","t">>>>) @@ (<<"s","c","a","r","l","e","t","-","v","i","o","l","e","t">> :> <<<<"s","c","a","r","l","e","t","-","v","i","o","l","e","t">>>>)) >>

\* config.VERSION_GROUP_MAP: version name to version group.
VERSION_GROUP_MAP ==
    (<<"r","e","d">> :> <<"r","e","d","-","b","l","u","e">>) @@
    (<<"b","l","u","e">> :> <<"r","e","d","-","b","l","u","e">>) @@
    (<<"y","e","l","l","o","w">> :> <<"y","e","l","l","o","w">>) @@
    (<<"g","o","l","d">> :> <<"g","o","l","d","-","s","i","l","v","e","r">>) @@
    (<<"s","i","l","v","e","r">> :> <<"g","o","l","d","-","s","i","l","v","e","r">>) @@
    (<<"c","r","y","s","t","a","l">> :> <<"c","r","y","s","t","a","l">>) @@
    (<<"r","u","b","y">> :> <<"r","u","b","y","-","s","a","p","p","h","i","r","e">>) @@
    (<<"s","a","p","p","h","i","r","e">> :> <<"r","u","b","y","-","s","a","p","p","h","i","r","e">>) @@
    (<<"e","m","e","r","a","l","d">> :> <<"e","m","e","r","a","l","d">>) @@
    (<<"f","i","r","e","r","e","d">> :> <<"f","i","r","e","r","e","d","-","l","e","a","f","g","r","e","e","n">>) @@
    (<<"l","e","a","f","g","r","e","e","n">> :> <<"f","i","r","e","r","e","d","-","l","e","a","f","g","r","e","e","n">>) @@
    (<<"d","i","a","m","o","n","d">> :> <<"d","i","a","m","o","n","d","-","p","e","a","r","l">>) @@
    (<<"p","e","a","r","l">> :> <<"d","i","a","m","o","n","d","-","p","e","a","r","l">>) @@
    (<<"p","l","a","t","i","n","u","m">> :> <<"p","l","a","t","i","n","u","m">>) @@
    (<<"h","e","a","r","t","g","o","l","d">> :> <<"h","e","a","r","t","g","o","l","d","-","s","o","u","l","s","i","l","v","e","r">>) @@
    (<<"s","o","u","l","s","i","l","v","e","r">> :> <<"h","e","a","r","t","g","o","l","d","-","s","o","u","l","s","i","l","v","e","r">>) @@
    (<<"b","l","a","c","k">> :> <<"b","l","a","c","k","-","w","h","i","t","e">>) @@
    (<<"w","h","i","t","e">> :> <<"b","l","a","c","k","-","w","h","i","t","e">>) @@
    (<<"b","l","a","c","k","-","2">> :> <<"b","l","a","c","k","-","2","-","w","h","i","t","e","-","2">>) @@
    (<<"w","h","i","t","e","-","2">> :> <<"b","l","a","c","k","-","2","-","w","h","i","t","e","-","2">>) @@
    (<<"x">> :> <<"x","-","y">>) @@
    (<<"y">> :> <<"x","-","y">>) @@
    (<<"o","m","e","g","a","-","r","u","b","y">> :> <<"o","m","e","g","a","-","r","u","b","y","-","a","l","p","h","a","-","s","a","p","p","h","i","r","e">>) @@
    (<<"a","l","p","h","a","-","s","a","p","p","h","i","r","e">> :> <<"o","m","e","g","a","-","r","u","b","y","-","a","l","p","h","a","-","s","a","p","p","h","i","r","e">>) @@
    (<<"s","u","n">> :> <<"s","u","n","-","m","o","o","n">>) @@
    (<<"m","o","o","n">> :> <<"s","u","n","-","m","o","o","n">>) @@
    (<<"u","l","t","r","a","-","s","u","n">> :> <<"u","l","t","r","a","-","s","u","n","-","u","l","t","r","a","-","m","o","o","n">>) @@
    (<<"u","l","t","r","a","-","m","o","o","n">> :> <<"u","l","t","r","a","-","s","u","n","-","u","l","t","r","a","-","m","o","o","n">>) @@
    (<<"s","w","o","r","d">> :> <<"s","w","o","r","d","-","s","h","i","e","l","d">>) @@
    (<<"s","h","i","e","l","d">> :> <<"s","w","o","r","d","-","s","h","i","e","l","d">>) @@
    (<<"s","c","a","r","l","e","t">> :> <<"s","c","a","r","l","e","t","-","v","i","o","l","e","t">>) @@
    (<<"v","i","o","l","e","t">> :> <<"s","c","a","r","l","e","t","-","v","i","o","l","e","t">>)

\* config.ROMAN_TO_INT
ROMAN_TO_INT ==
    (<<"i">> :> 1) @@
    (<<"i","i">> :> 2) @@
    (<<"i","i","i">> :> 3) @@
    (<<"i","v">> :> 4) @@
    (<<"v">> :> 5) @@
    (<<"v","i">> :> 6) @@
    (<<"v","i","i">> :> 7) @@
    (<<"v","i","i","i">> :> 8) @@
    (<<"i","x">> :> 9)

\* game_to_generation of _infer_generation_from_game
game_to_generation ==
    (<<"r","e","d">> :> 1) @@
    (<<"b","l","u","e">> :> 1) @@
    (<<"y","e","l","l","o","w">> :> 1) @@
    (<<"g","o","l","d">> :> 2) @@
    (<<"s","i","l","v","e","r">> :> 2) @@
    (<<"c","r","y","s","t","a","l">> :> 2) @@
    (<<"r","u","b","y">> :> 3) @@
    (<<"s","a","p","p","h","i","r","e">> :> 3) @@
    (<<"e","m","e","r","a","l","d">> :> 3) @@
    (<<"f","i","r","e","r","e","d">> :> 3) @@
    (<<"l","e","a","f","g","r","e","e","n">> :> 3) @@
    (<<"d","i","a","m","o","n","d">> :> 4) @@
    (<<"p","e","a","r","l">> :> 4) @@
    (<<"p","l","a","t","i","n","u","m">> :> 4) @@
    (<<"h","e","a","r","t","g","o","l","d">> :> 4) @@
    (<<"s","o","u","l","s","i","l","v","e","r">> :> 4) @@
    (<<"b","l","a","c","k">> :> 5) @@
    (<<"w","h","i","t","e">> :> 5) @@
    (<<"b","l","a","c","k","-","2">> :> 5) @@
    (<<"w","h","i","t","e","-","2">> :> 5) @@
    (<<"x">> :> 6) @@
    (<<"y">> :> 6) @@
    (<<"o","m","e","g","a","-","r","u","b","y">> :> 6) @@
    (<<"a","l","p","h","a","-","s","a","p","p","h","i","r","e">> :> 6) @@
    (<<"s","u","n">> :> 7) @@
    (<<"m","o","o","n">> :> 7) @@
    (<<"u","l","t","r","a","-","s","u","n">> :> 7) @@
    (<<"u","l","t","r","a","-","m","o","o","n">> :> 7) @@
    (<<"s","w","o","r","d">> :> 8) @@
    (<<"s","h","i","e","l","d">> :> 8) @@
    (<<"s","c","a","r","l","e","t">> :> 9) @@
    (<<"v","i","o","l","e","t">> :> 9)

\* The games print_available_games lists under GENERATION 1..9.
ListedGames ==
    << <<<<"r","e","d">>,<<"b","l","u","e">>,<<"y","e","l","l","o","w">>>>,
       <<<<"g","o","l","d">>,<<"s","i","l","v","e","r">>,<<"c","r","y","s","t","a","l">>>>,
       <<<<"r","u","b","y">>,<<"s","a","p","p","h","i","r","e">>,<<"e","m","e","r","a","l","d">>,<<"f","i","r","e","r","e","d">>,<<"l","e","a","f","g","r","e","e","n">>>>,
       <<<<"d","i","a","m","o","n","d">>,<<"p","e","a","r","l">>,<<"p","l","a","t","i","n","u","m">>,<<"h","e","a","r","t","g","o","l","d">>,<<"s","o","u","l","s","i","l","v","e","r">>>>,
       <<<<"b","l","a","c","k">>,<<"w","h","i","t","e">>,<<"b","l","a","c","k","-","2">>,<<"w","h","i","t","e","-","2">>>>,
       <<<<"x">>,<<"y">>,<<"o","m","e","g","a","-","r","u","b","y">>,<<"a","l","p","h","a","-","s","a","p","p","h","i","r","e">>>>,
       <<<<"s","u","n">>,<<"m","o","o","n">>,<<"u","l","t","r","a","-","s","u","n">>,<<"u","l","t","r","a","-","m","o","o","n">>>>,
       <<<<"s","w","o","r","d">>,<<"s","h","i","e","l","d">>>>,
       <<<<"s","c","a","r","l","e","t">>,<<"v","i","o","l","e","t">>>> >>

\* _infer_generation_from_game
infer_generation_from_game(game_name) == DictGet(game_to_generation, Lower(game_name), None)

\* The version groups a query is filtered to: those of the game when the
\* game is a key of the generation, else those of the key 'all'.
TargetVersionGroups(generation, specific_game) ==
    LET groups == IF generation \in DOMAIN GEN_VERSION_GROUPS
                  THEN GEN_VERSION_GROUPS[generation] ELSE <<>>
    IN  IF specific_game # <<>> /\ specific_game \in DOMAIN groups
        THEN groups[specific_game]
        ELSE DictGet(groups, <<"a","l","l">>, <<>>)

\* game_filter_text
GameFilterText(generation, specific_game) ==
    LET groups == IF generation \in DOMAIN GEN_VERSION_GROUPS
                  THEN GEN_VERSION_GROUPS[generation] ELSE <<>>
    IN  IF specific_game # <<>> /\ specific_game \in DOMAIN groups
        THEN Title(Replace(specific_game, "-", " "))
        ELSE <<"G","e","n","e","r","a","t","i","o","n"," ">> \o Str(generation)

\* gen_number of a move: the number after the last '-' of the generation
\* name, 999 when unknown.
MoveGenNumber(move_generation) ==
    IF move_generation = <<>> THEN 999
    ELSE LET parts == SplitOn(move_generation, "-")
         IN  DictGet(ROMAN_TO_INT, Lower(parts[Len(parts)]), 999)

\* The entries of s whose key has not occurred before, in order; keys[i] is
\* the key of s[i].
UniqueBy(s, keys) ==
    LET kept == SelectSeq(Indices(s), LAMBDA i : \A j \in 1..(i - 1) : keys[j] # keys[i])
    IN  [k \in 1..Len(kept) |-> s[kept[k]]]

\* The list left in the order it was built in.
StableSort_unsorted(s, less) == s

\* list.sort: stable and ascending; less[i][j] tells whether the key of s[i]
\* is less than the key of s[j].
StableSort(s, less) ==
    LET Before(j, i) == less[j][i] \/ (~less[i][j] /\ j < i)
        Place(i) == Cardinality({j \in 1..Len(s) : Before(j, i)}) + 1
    IN  [p \in 1..Len(s) |-> s[CHOOSE i \in 1..Len(s) : Place(i) = p]]

\* The characters of the names in code point order.
CodeOrder == <<" ", "-", ".">> \o Digits \o UpperLetters \o LowerLetters
Ord(c) == CHOOSE i \in 1..Len(CodeOrder) : CodeOrder[i] = c

RECURSIVE StrLess(_, _)
\* a < b for two strings
StrLess(a, b) ==
    IF b = <<>> THEN FALSE
    ELSE IF a = <<>> THEN TRUE
    ELSE IF Head(a) # Head(b) THEN Ord(Head(a)) < Ord(Head(b))
    ELSE StrLess(Tail(a), Tail(b))

\* The move_info records of one entry of pokemon_data['moves'], each with
\* the learn method it is filed under.
MoveInfos(move_entry, generation, target_version_groups) ==
    IF ~move_entry.has_details \/ MoveGenNumber(move_entry.generation) > generation
    THEN <<>>
    ELSE LET details == SelectSeq(move_entry.version_group_details,
                                  LAMBDA d : InSeq(d.version_group, target_version_groups))
         IN  [k \in 1..Len(details) |->
                [learn_method |-> details[k].learn_method,
                 info |-> [name |-> Title(Replace(move_entry.name, "-", " ")),
                           type |-> move_entry.type,
                           power |-> move_entry.power,
                           accuracy |-> move_entry.accuracy,
                           pp |-> move_entry.pp,
                           level |-> details[k].level_learned_at,
                           category |-> move_entry.category,
                           version_group |-> details[k].version_group]]]

\* MoveHandler.get_learnset_data
get_learnset_data(moves, generation, specific_game) ==
    LET target == TargetVersionGroups(generation, specific_game)
        filed == Flatten([i \in 1..Len(moves) |-> MoveInfos(moves[i], generation, target)])
        Of(methods) == LET chosen == SelectSeq(filed, LAMBDA f : f.learn_method \in methods)
                       IN  [k \in 1..Len(chosen) |-> chosen[k].info]
        Names(list) == [i \in 1..Len(list) |-> list[i].name]
        Unique(list) == UniqueBy(list, Names(list))
        ByLevel(list) == [i \in 1..Len(list) |-> [j \in 1..Len(list) |->
                             list[i].level < list[j].level]]
        level_up == Of({<<"l","e","v","e","l","-","u","p">>})
    IN  [level_up |-> Unique(StableSort(level_up, ByLevel(level_up))),
         tm_hm |-> Unique(Of({<<"m","a","c","h","i","n","e">>, <<"t","m">>})),
         egg |-> Unique(Of({<<"e","g","g">>})),
         tutor |-> Unique(Of({<<"t","u","t","o","r">>})),
         filter_info |-> [generation |-> generation, game |-> specific_game,
                          display_name |-> GameFilterText(generation, specific_game)]]

\* level_range
LevelRange(min_level, max_level) ==
    IF min_level = max_level THEN <<"L","v","."," ">> \o Str(min_level)
    ELSE <<"L","v","."," ">> \o Str(min_level) \o <<"-">> \o Str(max_level)

\* The location_info records of one encounter area.
AreaLocations(encounter_area, target_version_groups) ==
    LET versions == SelectSeq(encounter_area.version_details,
                              LAMBDA v : InSeq(DictGet(VERSION_GROUP_MAP, v.version, v.version),
                                               target_version_groups))
    IN  Flatten([k \in 1..Len(versions) |->
            [e \in 1..Len(versions[k].encounter_details) |->
                LET detail == versions[k].encounter_details[e]
                IN  [location |-> Title(Replace(encounter_area.location_name, "-", " ")),
                     area |-> Title(Replace(encounter_area.area_name, "-", " ")),
                     method |-> Title(Replace(detail.method, "-", " ")),
                     level_range |-> LevelRange(detail.min_level, detail.max_level),
                     chance |-> detail.chance,
                     version |-> Title(versions[k].version)]]])

\* LocationHandler.get_location_data; encounters.ok is FALSE when the API
\* gave no encounter list.
get_location_data(encounters, generation, specific_game) ==
    IF ~encounters.ok
    THEN [locations |-> <<>>,
          filter_info |-> [generation |-> generation, game |-> specific_game,
                           display_name |-> IF specific_game # <<>>
                                            THEN Title(Replace(specific_game, "-", " "))
                                            ELSE <<"G","e","n","e","r","a","t","i","o","n"," ">> \o Str(generation)]]
    ELSE LET target == TargetVersionGroups(generation, specific_game)
             locations == Flatten([i \in 1..Len(encounters.areas) |->
                                      AreaLocations(encounters.areas[i], target)])
             Less(a, b) ==
                 \/ StrLess(a.location, b.location)
                 \/ a.location = b.location /\ StrLess(a.area, b.area)
             ByLocationArea == [i \in 1..Len(locations) |-> [j \in 1..Len(locations) |->
                                   Less(locations[i], locations[j])]]
             sorted == StableSort(locations, ByLocationArea)
             loc_keys == [i \in 1..Len(sorted) |->
                             <<sorted[i].location, sorted[i].area, sorted[i].method,
                               sorted[i].level_range>>]
         IN  [locations |-> UniqueBy(sorted, loc_keys),
              filter_info |-> [generation |-> generation, game |-> specific_game,
                               display_name |-> GameFilterText(generation, specific_game)]]

\* Every version group and every version, in the order of the generations.
AllVersionGroups == Flatten([g \in 1..Len(GEN_VERSION_GROUPS) |-> GEN_VERSION_GROUPS[g][<<"a","l","l">>]])
AllVersions == Flatten(ListedGames)

LearnMethods == {<<"l","e","v","e","l","-","u","p">>, <<"m","a","c","h","i","n","e">>, <<"e","g","g">>, <<"t","u","t","o","r">>}

\* A move the Pokemon learns by the given method in every version group, at
\* the level LevelIn(i) in the i-th group; generation <<>> when the details
\* of the move name no generation, has_details FALSE when get_move_details
\* returned None.
MoveInAllGroups(name, generation, has_details, learn_method, LevelIn(_)) ==
    [name |-> name, generation |-> generation, has_details |-> has_details,
     type |-> <<"n","o","r","m","a","l">>, power |-> None, accuracy |-> None, pp |-> 10,
     category |-> <<"s","t","a","t","u","s">>,
     version_group_details |->
        [i \in 1..Len(AllVersionGroups) |->
            [version_group |-> AllVersionGroups[i], learn_method |-> learn_method,
             level_learned_at |-> LevelIn(i)]]]

\* pokemon_data['moves'] of a Pokemon that learns, by the given method: a
\* move of generation I in all version groups, later in the older groups;
\* one move of its own in every version group; a move of generation IX, a
\* move of no known generation and a move without details in all groups.
PokemonMoves(learn_method) ==
    << MoveInAllGroups(<<"c","o","m","m","o","n","-","m","o","v","e">>, <<"g","e","n","e","r","a","t","i","o","n","-","i">>, TRUE, learn_method,
                       LAMBDA i : 30 - i) >>
    \o [i \in 1..Len(AllVersionGroups) |->
        [name |-> AllVersionGroups[i] \o <<"-","m","o","v","e">>, generation |-> <<"g","e","n","e","r","a","t","i","o","n","-","i">>,
         has_details |-> TRUE, type |-> <<"n","o","r","m","a","l">>, power |-> 40, accuracy |-> 100,
         pp |-> 35, category |-> <<"p","h","y","s","i","c","a","l">>,
         version_group_details |->
            << [version_group |-> AllVersionGroups[i], learn_method |-> learn_method,
                level_learned_at |-> ((i * 7) % 10) + 1] >>]]
    \o << MoveInAllGroups(<<"l","a","t","e","-","m","o","v","e">>, <<"g","e","n","e","r","a","t","i","o","n","-","i","x">>, TRUE, learn_method,
                          LAMBDA i : 1),
          MoveInAllGroups(<<"o","d","d","-","m","o","v","e">>, <<>>, TRUE, learn_method, LAMBDA i : 2),
          MoveInAllGroups(<<"l","o","s","t","-","m","o","v","e">>, <<"g","e","n","e","r","a","t","i","o","n","-","i">>, FALSE, learn_method,
                          LAMBDA i : 3) >>

\* The encounter list of a Pokemon that is met in one area of its own in
\* every version.
PokemonEncounters ==
    [ok |-> TRUE,
     areas |-> [i \in 1..Len(AllVersions) |->
        [area_name |-> AllVersions[i] \o <<"-","a","r","e","a">>,
         location_name |-> VERSION_GROUP_MAP[AllVersions[i]] \o <<"-","r","o","u","t","e">>,
         version_details |->
            << [version |-> AllVersions[i],
                encounter_details |-> << [method |-> <<"w","a","l","k">>, min_level |-> 3,
                                          max_level |-> 3 + (i % 2), chance |-> 20] >>] >>]]]

FilterIdle ==
    /\ fl_kind = "none"
    /\ fl_generation = 0
    /\ fl_game = <<>>
    /\ fl_method = <<>>
    /\ fl_encounters = FALSE
    /\ fl_result = <<>>
    /\ fl_pc = "idle"

\* The games typed with generation g: none, a game listed under g, or a key
\* of the generation's groups.
GamesTyped(g) ==
    {<<>>} \cup {ListedGames[g][i] : i \in 1..Len(ListedGames[g])}
    \cup DOMAIN GEN_VERSION_GROUPS[g]

FilterInit ==
    /\ fl_result = <<>>
    /\ fl_pc = "call"
    /\ \/ \* '<command> gen g [game]'
          /\ fl_kind = "moves"
          /\ fl_generation \in 1..Len(GEN_VERSION_GROUPS)
          /\ fl_game \in GamesTyped(fl_generation)
          /\ fl_method \in LearnMethods
          /\ fl_encounters = FALSE
       \/ \* 'location gen g [game]'
          /\ fl_kind = "location gen"
          /\ fl_generation \in 1..Len(GEN_VERSION_GROUPS)
          /\ fl_game \in GamesTyped(fl_generation)
          /\ fl_method = <<>>
          /\ fl_encounters \in BOOLEAN
       \/ \* 'location <game>'
          /\ fl_kind = "location game"
          /\ fl_generation = 0
          /\ fl_game \in UNION {GamesTyped(g) \ {<<>>} : g \in 1..Len(GEN_VERSION_GROUPS)}
          /\ fl_method = <<>>
          /\ fl_encounters \in BOOLEAN

filterArgs == <<fl_kind, fl_game, fl_method, fl_encounters>>

\* handle_move_query: get_learnset_data for the generation and the game.
MoveQuery ==
    /\ fl_pc = "call"
    /\ fl_kind = "moves"
    /\ fl_result' = get_learnset_data(PokemonMoves(fl_method), fl_generation, fl_game)
    /\ fl_pc' = "done"
    /\ UNCHANGED <<fl_generation, filterArgs>>

\* handle_location_query, 'location gen g [game]'
LocationGenQuery ==
    /\ fl_pc = "call"
    /\ fl_kind = "location gen"
    /\ fl_result' = get_location_data([PokemonEncounters EXCEPT !.ok = fl_encounters],
                                      fl_generation, fl_game)
    /\ fl_pc' = "done"
    /\ UNCHANGED <<fl_generation, filterArgs>>

\* handle_location_query, 'location <game>': the generation is inferred
\* from the game, and the query is refused when it cannot be.
LocationGameQuery ==
    /\ fl_pc = "call"
    /\ fl_kind = "location game"
    /\ LET generation == infer_generation_from_game(fl_game)
       IN  IF generation = None
           THEN /\ fl_pc' = "refused"
                /\ UNCHANGED <<fl_generation, fl_result>>
           ELSE /\ fl_generation' = generation
                /\ fl_result' = get_location_data(
                                    [PokemonEncounters EXCEPT !.ok = fl_encounters],
                                    generation, fl_game)
                /\ fl_pc' = "done"
    /\ UNCHANGED filterArgs

(***************************************************************************)
(* Claims about the game filter.                                           *)
(***************************************************************************)
\* The version groups of the entries of the result.
ResultGroups ==
    IF fl_kind = "moves"
    THEN LET all == fl_result.level_up \o fl_result.tm_hm \o fl_result.egg \o fl_result.tutor
         IN  {all[i].version_group : i \in 1..Len(all)}
    ELSE {VERSION_GROUP_MAP[v] :
             v \in {w \in DOMAIN VERSION_GROUP_MAP :
                       \E i \in 1..Len(fl_result.locations) :
                           fl_result.locations[i].version = Title(w)}}

GameIsListed == fl_generation \in 1..Len(ListedGames) /\ InSeq(fl_game, ListedGames[fl_generation])

\* C20: for a game the 'games' command lists under generation g, the move
\* query '<command> gen g <game>', the location query 'location gen g <game>'
\* and the location query 'location <game>' return entries of that game's own
\* version group only.
C20_GameFilterOwnGroupOnly ==
    (fl_pc = "done" /\ GameIsListed) => ResultGroups \subseteq {VERSION_GROUP_MAP[fl_game]}

\* The names of the generations, in order.
GenerationNames ==
    <<<<"g","e","n","e","r","a","t","i","o","n","-","i">>, <<"g","e","n","e","r","a","t","i","o","n","-","i","i">>, <<"g","e","n","e","r","a","t","i","o","n","-","i","i","i">>, <<"g","e","n","e","r","a","t","i","o","n","-","i","v">>,
      <<"g","e","n","e","r","a","t","i","o","n","-","v">>, <<"g","e","n","e","r","a","t","i","o","n","-","v","i">>, <<"g","e","n","e","r","a","t","i","o","n","-","v","i","i">>, <<"g","e","n","e","r","a","t","i","o","n","-","v","i","i","i">>,
      <<"g","e","n","e","r","a","t","i","o","n","-","i","x">>>>

\* The generation a move of pokemon_data['moves'] was introduced in, 0 when
\* its details name none of the nine.
IntroducedIn(move) ==
    IF \E g \in 1..9 : GenerationNames[g] = move.generation
    THEN CHOOSE g \in 1..9 : GenerationNames[g] = move.generation
    ELSE 0

\* The lists of the result, and the learn methods filed in each.
Categories == <<fl_result.level_up, fl_result.tm_hm, fl_result.egg, fl_result.tutor>>
CategoryMethods ==
    <<{<<"l","e","v","e","l","-","u","p">>}, {<<"m","a","c","h","i","n","e">>, <<"t","m">>}, {<<"e","g","g">>}, {<<"t","u","t","o","r">>}>>

\* The move of pokemon_data['moves'] an entry of the result names, and the
\* positions of its details that the filter lets through.
SourceMove(entry) ==
    CHOOSE m \in {PokemonMoves(fl_method)[i] : i \in 1..Len(PokemonMoves(fl_method))} :
        Title(Replace(m.name, "-", " ")) = entry.name
AdmittedDetails(move, c) ==
    {k \in 1..Len(move.version_group_details) :
        /\ move.version_group_details[k].learn_method \in CategoryMethods[c]
        /\ InSeq(move.version_group_details[k].version_group,
                 TargetVersionGroups(fl_generation, fl_game))}

\* C29: in the result of get_learnset_data the level-up list is in
\* non-decreasing order of level; no list has two moves of the same name,
\* the occurrence kept being the first, which in the level-up list is the one
\* of the lowest level; and no move introduced in a later generation than the
\* requested one appears.
C29_SortedUniqueWithinGeneration ==
    (fl_pc = "done" /\ fl_kind = "moves") =>
        /\ \A i, j \in 1..Len(fl_result.level_up) :
              i < j => fl_result.level_up[i].level <= fl_result.level_up[j].level
        /\ \A c \in 1..4 : \A i, j \in 1..Len(Categories[c]) :
              i < j => Categories[c][i].name # Categories[c][j].name
        /\ \A i \in 1..Len(fl_result.level_up) :
              LET entry == fl_result.level_up[i]
                  move == SourceMove(entry)
              IN  \A k \in AdmittedDetails(move, 1) :
                      entry.level <= move.version_group_details[k].level_learned_at
        /\ \A c \in 2..4 : \A i \in 1..Len(Categories[c]) :
              LET entry == Categories[c][i]
                  move == SourceMove(entry)
                  first == CHOOSE k \in AdmittedDetails(move, c) :
                               \A l \in AdmittedDetails(move, c) : k <= l
              IN  entry.version_group = move.version_group_details[first].version_group
        /\ \A c \in 1..4 : \A i \in 1..Len(Categories[c]) :
              IntroducedIn(SourceMove(Categories[c][i])) \in 1..fl_generation

\* The level-up moves of generation 1: the move learned at level 29 in
\* red-blue and at level 28 in yellow is listed once, last, at level 28, and
\* the moves of generation IX and of no known generation are left out.
C29_Witness ==
    /\ fl_pc = "done" /\ fl_kind = "moves"
    /\ fl_method = <<"l","e","v","e","l","-","u","p">> /\ fl_generation = 1 /\ fl_game = <<>>
    /\ Len(fl_result.level_up) = 3
    /\ fl_result.level_up[3].name = <<"C","o","m","m","o","n"," ","M","o","v","e">>
    /\ fl_result.level_up[3].level = 28
    /\ fl_result.level_up[3].version_group = <<"y","e","l","l","o","w">>
    /\ fl_result.level_up[1].level < fl_result.level_up[2].level



(***************************************************************************)
(* Claims about the commands of the loop.                                  *)
(***************************************************************************)
Typed(i) == Lower(Strip(tm_log[i].query))
ExitWords == {<<"e","x","i","t">>, <<"q","u","i","t">>}
IsComparison(typed) ==
    LET word == <<"c","o","m","p","a","r","e"," ">>
    IN  Len(typed) >= Len(word) /\ SubSeq(typed, 1, Len(word)) = word

NeedsPokemon(query) ==
    LET typed == Lower(Strip(query))
    IN  \/ typed = <<"e","v","o">>
        \/ \E p \in MovePrefixes : Len(typed) >= Len(p) /\ SubSeq(typed, 1, Len(p)) = p
        \/ Len(typed) >= 9 /\ SubSeq(typed, 1, 9) = <<"l","o","c","a","t","i","o","n"," ">>

\* C26: whenever no current Pokemon is set, 'evo', the five move commands
\* and the location commands are rejected with the search-first message, no
\* handler is run for them, the current Pokemon stays unset and the loop
\* continues.
C26_RejectedWithoutCurrent ==
    [][ (tm_current = None /\ Len(tm_log') = Len(tm_log) + 1
         /\ NeedsPokemon(tm_log'[Len(tm_log')].query)) =>
            /\ tm_log'[Len(tm_log')].out \in Rejections
            /\ tm_log'[Len(tm_log')].pokemon = None
            /\ tm_current' = None
            /\ tm_pc' = "prompt" ]_vars

\* C26 witness: a move command and then a location command were typed with
\* no current Pokemon, both were rejected and the prompt is back.
C26_Witness ==
    /\ tm_current = None
    /\ tm_pc = "prompt"
    /\ Len(tm_log) = 2
    /\ tm_log[1].query = <<"t","m"," ","g","e","n"," ","3"," ","e","m","e","r","a","l","d">>
    /\ tm_log[1].out = "moves rejected"
    /\ tm_log[2].query = <<"l","o","c","a","t","i","o","n"," ","e","m","e","r","a","l","d">>
    /\ tm_log[2].out = "locations rejected"



(***************************************************************************)
(* CacheManager (cache_manager.py): the memory cache with its access       *)
(* order, the file cache, the lock and the threads that call get, set,     *)
(* clear and cleanup_expired.  "fg" is a foreground thread, "bg" the       *)
(* background preloader.                                                   *)
(* cache_lock is a threading.Lock: it has no owner and is not reentrant,   *)
(* so a thread that holds it and reaches another 'with self.cache_lock'    *)
(* waits for it like any other thread.  A name that is None is written     *)
(* NoName, a keyword that is not given NotGiven, a value that is None -1;  *)
(* the content 0 of a file is content json.load cannot read.  The          *)
(* operations on the files are made without the lock, one step each.       *)
(***************************************************************************)
MaxCalls == 2      \* most calls the foreground thread makes
PreloadNames == 2  \* names of popular_pokemon the preloader goes through

max_memory_items == 50   \* self.config['max_memory_items']
DefaultWidth == 50       \* kwargs.get('width', 50)

Threads == {"fg", "bg"}

\* self.popular_pokemon, its first names
popular_pokemon == <<<<"p","i","k","a","c","h","u">>, <<"c","h","a","r","i","z","a","r","d">>, <<"b","l","a","s","t","o","i","s","e">>>>

\* None where a name is expected; f"{None}" is 'None'.
NoName == <<"None">>
FormatName(name) == IF name = NoName THEN <<"N","o","n","e">> ELSE name

\* A keyword that is not given.
NotGiven == <<"not given">>
NoKwargs == [width |-> None, sprite_type |-> NotGiven, generation |-> NotGiven,
             game |-> NotGiven]

\* kwargs.get(keyword, default)
KwargsGet(value, default) == IF value = NotGiven THEN default ELSE value

\* _generate_cache_key; a keyword that is not given has width None or the
\* name NotGiven.
generate_cache_key(category, identifier, kwargs) ==
    LET id == Lower(identifier)
        generation == FormatName(KwargsGet(kwargs.generation, <<>>))
        game == FormatName(KwargsGet(kwargs.game, <<>>))
    IN  IF category = <<"p","o","k","e","m","o","n">> THEN <<"p","o","k","e","m","o","n","_">> \o id
        ELSE IF category = <<"m","o","v","e">> THEN <<"m","o","v","e","_">> \o id
        ELSE IF category = <<"e","v","o","l","u","t","i","o","n">> THEN <<"e","v","o","l","u","t","i","o","n","_">> \o id
        ELSE IF category = <<"s","p","r","i","t","e">>
             THEN <<"s","p","r","i","t","e","_">> \o id \o <<"_">>
                  \o FormatName(KwargsGet(kwargs.sprite_type, <<"f","r","o","n","t">>))
                  \o <<"_">>
                  \o Str(IF kwargs.width = None THEN DefaultWidth ELSE kwargs.width) \o <<"w">>
        ELSE IF category = <<"l","o","c","a","t","i","o","n">>
             THEN <<"l","o","c","a","t","i","o","n","_">> \o id \o <<"_","g","e","n">> \o generation \o <<"_">> \o game
        ELSE IF category = <<"m","o","v","e","s","_","b","y","_","g","e","n">>
             THEN <<"m","o","v","e","s","_">> \o id \o <<"_","g","e","n">> \o generation \o <<"_">> \o game
        ELSE FormatName(category) \o <<"_">> \o id

\* _get_cache_file_path: the subdirectory of the file of a key
Subdir(cache_key) ==
    IF StartsWith(cache_key, <<"p","o","k","e","m","o","n","_">>) THEN "pokemon"
    ELSE IF StartsWith(cache_key, <<"m","o","v","e","_">>) THEN "moves"
    ELSE IF StartsWith(cache_key, <<"e","v","o","l","u","t","i","o","n","_">>) THEN "evolution_chains"
    ELSE IF StartsWith(cache_key, <<"s","p","r","i","t","e","_">>) THEN "sprites/ascii"
    ELSE IF StartsWith(cache_key, <<"l","o","c","a","t","i","o","n","_">>) THEN "locations"
    ELSE IF StartsWith(cache_key, <<"m","o","v","e","s","_">>) THEN "locations"
    ELSE "temp"

\* subdir_map of clear
ClearedSubdir(category) ==
    IF category = <<"p","o","k","e","m","o","n">> THEN "pokemon"
    ELSE IF category = <<"m","o","v","e">> THEN "moves"
    ELSE IF category = <<"e","v","o","l","u","t","i","o","n">> THEN "evolution_chains"
    ELSE IF category = <<"s","p","r","i","t","e">> THEN "sprites/ascii"
    ELSE IF category = <<"l","o","c","a","t","i","o","n">> THEN "locations"
    ELSE "none"

EmptyMap == [k \in {} |-> None]
MapPut(map, k, v) == [x \in DOMAIN map \cup {k} |-> IF x = k THEN v ELSE map[x]]
MapDel(map, keys) == [x \in DOMAIN map \ keys |-> map[x]]

\* list.remove(k): the first occurrence only
RemoveFirst(order, k) ==
    IF \E i \in 1..Len(order) : order[i] = k
    THEN LET first == CHOOSE i \in 1..Len(order) :
                          order[i] = k /\ \A j \in 1..(i - 1) : order[j] # k
         IN  SubSeq(order, 1, first - 1) \o SubSeq(order, first + 1, Len(order))
    ELSE order

\* if cache_key in self.memory_access_order: remove; append
MoveToEnd(order, k) == Append(RemoveFirst(order, k), k)

RECURSIVE Evict_newest(_, _)
\* The loop with pop() in the place of pop(0): the newest key is removed.
Evict_newest(memory, order) ==
    IF Cardinality(DOMAIN memory) > max_memory_items /\ order # <<>>
    THEN Evict_newest(MapDel(memory, {order[Len(order)]}), SubSeq(order, 1, Len(order) - 1))
    ELSE [memory |-> memory, order |-> order]

RECURSIVE Evict(_, _)
\* The loop of _manage_memory_cache_size.
Evict(memory, order) ==
    IF Cardinality(DOMAIN memory) > max_memory_items /\ order # <<>>
    THEN Evict(MapDel(memory, {Head(order)}), Tail(order))
    ELSE [memory |-> memory, order |-> order]

\* _update_access_stats, the body under the lock
UpdateAccessStats(stats, cache_key, hit_type) ==
    LET parts == SplitOn(cache_key, "_")
        base_key == IF Len(parts) > 1 THEN parts[2] ELSE cache_key
        counted == IF hit_type = "memory"
                   THEN [stats EXCEPT !.memory_hits = @ + 1, !.hits = @ + 1]
                   ELSE IF hit_type = "file"
                   THEN [stats EXCEPT !.file_hits = @ + 1, !.hits = @ + 1]
                   ELSE [stats EXCEPT !.misses = @ + 1, !.api_calls = @ + 1]
    IN  [counted EXCEPT !.most_accessed =
            MapPut(@, base_key, (IF base_key \in DOMAIN @ THEN @[base_key] ELSE 0) + 1)]

\* The positions at which a thread waits for cache_lock, and where it is
\* once it has it.
AfterAcquire ==
    [get_lock |-> "get_memory", hit_stats_lock |-> "hit_stats",
     file_lock |-> "file_store", file_manage_lock |-> "file_manage",
     file_stats_lock |-> "file_stats", miss_stats_lock |-> "miss_stats",
     set_lock |-> "set_store", set_manage_lock |-> "set_manage",
     clear_lock |-> "clear_memory"]
AcquirePositions == DOMAIN AfterAcquire

DataValues == {1, 2}

\* The calls of the foreground thread.
ForegroundCalls ==
    [op : {"get", "set"}, category : {<<"p","o","k","e","m","o","n">>}, identifier : {<<"P","i","k","a","c","h","u">>},
     kwargs : {NoKwargs}, data : {None, 1}]
    \cup [op : {"get", "set"}, category : {<<"s","p","r","i","t","e">>}, identifier : {<<"m","e","w">>},
          kwargs : {NoKwargs, [NoKwargs EXCEPT !.width = DefaultWidth]}, data : {2}]
    \cup [op : {"clear"}, category : {NoName, <<"p","o","k","e","m","o","n">>}, identifier : {NoName, <<"P","i","k","a","c","h","u">>},
          kwargs : {NoKwargs}, data : {None}]
    \cup [op : {"cleanup"}, category : {NoName}, identifier : {NoName},
          kwargs : {NoKwargs}, data : {None}]

NoCall == [op |-> "none", category |-> NoName, identifier |-> NoName, kwargs |-> NoKwargs,
           data |-> None]
NoReturn == [of |-> "none", value |-> None]
NoStats == [hits |-> 0, misses |-> 0, memory_hits |-> 0, file_hits |-> 0, api_calls |-> 0,
            most_accessed |-> EmptyMap]

\* The stats _load_cache_metadata finds in metadata.json: there is no such
\* file, or an earlier run wrote it after two gets that missed.
SavedStats ==
    {NoStats,
     [NoStats EXCEPT !.misses = 2, !.api_calls = 2,
                     !.most_accessed = MapPut(MapPut(EmptyMap, <<"p","i","k","a","c","h","u">>, 1), <<"m","e","w">>, 1)]}

\* The subdirectories of the cache directory in which the calls above have
\* their files; the other subdirectories stay empty.
CacheDirs == {"pokemon", "sprites/ascii"}

\* cm_walk: the directories not yet listed, the files listed and not yet
\* gone through, and the file at hand.
NoWalk == [dirs |-> {}, files |-> {}, file |-> <<>>]

CacheKey(t) == generate_cache_key(cm_call[t].category, cm_call[t].identifier, cm_call[t].kwargs)

CacheIdle ==
    /\ cm_enabled = FALSE
    /\ cm_memory = EmptyMap
    /\ cm_order = <<>>
    /\ cm_files = EmptyMap
    /\ cm_expired = {}
    /\ cm_stats = NoStats
    /\ cm_lock = "free"
    /\ cm_pc = [t \in Threads |-> "off"]
    /\ cm_call = [t \in Threads |-> NoCall]
    /\ cm_loaded = [t \in Threads |-> None]
    /\ cm_ret = [t \in Threads |-> NoReturn]
    /\ cm_left = 0
    /\ cm_next = 0
    /\ cm_walk = NoWalk

\* __init__: empty memory cache and order, a free lock, the stats of
\* metadata.json, the preloader started; the cache directory may hold files
\* of an earlier run: of pikachu (unreadable or readable) and of a sprite.
CacheInit ==
    /\ cm_enabled \in BOOLEAN
    /\ cm_memory = EmptyMap
    /\ cm_order = <<>>
    /\ \E content \in {None, 0, 1}, sprite \in {None, 2} :
          cm_files = (IF content = None THEN EmptyMap
                      ELSE MapPut(EmptyMap, <<"p","o","k","e","m","o","n","_","p","i","k","a","c","h","u">>, content))
                     @@ (IF sprite = None THEN EmptyMap
                         ELSE MapPut(EmptyMap, <<"s","p","r","i","t","e","_","m","e","w","_","f","r","o","n","t","_","5","0","w">>, sprite))
    /\ cm_expired \in SUBSET (DOMAIN cm_files)
    /\ cm_stats \in SavedStats
    /\ cm_lock = "free"
    /\ cm_pc = [t \in Threads |-> IF t = "bg" THEN "sleep" ELSE "idle"]
    /\ cm_call = [t \in Threads |-> NoCall]
    /\ cm_loaded = [t \in Threads |-> None]
    /\ cm_ret = [t \in Threads |-> NoReturn]
    /\ cm_left = MaxCalls
    /\ cm_next = 1
    /\ cm_walk = NoWalk

cacheShared == <<cm_enabled, cm_memory, cm_order, cm_files, cm_expired, cm_stats, cm_lock>>

Return(t, of, value) ==
    /\ cm_pc' = [cm_pc EXCEPT ![t] = IF t = "bg" THEN "returned" ELSE "idle"]
    /\ cm_ret' = [cm_ret EXCEPT ![t] = [of |-> of, value |-> value]]

Goto(t, pc) == cm_pc' = [cm_pc EXCEPT ![t] = pc] /\ UNCHANGED cm_ret

\* The foreground thread calls get, set, clear or cleanup_expired.
ForegroundCall ==
    /\ cm_pc["fg"] = "idle"
    /\ cm_left > 0
    /\ \E call \in ForegroundCalls :
          /\ cm_call' = [cm_call EXCEPT !["fg"] = call]
          /\ cm_pc' = [cm_pc EXCEPT !["fg"] = call.op]
    /\ cm_left' = cm_left - 1
    /\ UNCHANGED <<cacheShared, cm_loaded, cm_ret, cm_next, cm_walk>>

\* background_preload and the loop of preload_popular: after the sleep,
\* for every name a get and, when it returned None and the API has the
\* data, a set; a get that raised is caught in the loop, which goes on.
PreloaderStep ==
    LET name == popular_pokemon[cm_next]
        Call(op, data) == [op |-> op, category |-> <<"p","o","k","e","m","o","n">>, identifier |-> name,
                           kwargs |-> NoKwargs, data |-> data]
        Start(op, data) ==
            /\ cm_call' = [cm_call EXCEPT !["bg"] = Call(op, data)]
            /\ cm_pc' = [cm_pc EXCEPT !["bg"] = op]
            /\ UNCHANGED cm_next
        Advance ==
            /\ cm_pc' = [cm_pc EXCEPT !["bg"] = "loop"]
            /\ cm_next' = cm_next + 1
            /\ UNCHANGED cm_call
    IN  /\ \/ /\ cm_pc["bg"] = "sleep"
              /\ cm_pc' = [cm_pc EXCEPT !["bg"] = IF cm_enabled THEN "loop" ELSE "finished"]
              /\ UNCHANGED <<cm_call, cm_next>>
           \/ /\ cm_pc["bg"] = "loop"
              /\ IF cm_next > PreloadNames
                 THEN /\ cm_pc' = [cm_pc EXCEPT !["bg"] = "finished"]
                      /\ UNCHANGED <<cm_call, cm_next>>
                 ELSE Start("get", None)
           \/ /\ cm_pc["bg"] = "returned"
              /\ IF cm_ret["bg"].of = "get" /\ cm_ret["bg"].value = None
                 THEN \E data \in {None, 1} :
                         IF data = None THEN Advance ELSE Start("set", data)
                 ELSE Advance
        /\ UNCHANGED <<cacheShared, cm_loaded, cm_ret, cm_left, cm_walk>>

\* The first lines of get, set, clear and cleanup_expired: the test of
\* config['enabled'] and of the data.
Enter(t) ==
    /\ cm_pc[t] \in {"get", "set", "clear", "cleanup"}
    /\ IF cm_pc[t] = "get"
       THEN IF ~cm_enabled THEN Return(t, "get", None) ELSE Goto(t, "get_lock")
       ELSE IF cm_pc[t] = "set"
       THEN IF ~cm_enabled \/ cm_call[t].data = None
            THEN Return(t, "set", 0)
            ELSE Goto(t, "set_lock")
       ELSE IF cm_pc[t] = "clear"
       THEN IF ~cm_enabled THEN Return(t, "clear", None) ELSE Goto(t, "clear_lock")
       ELSE IF ~cm_enabled THEN Return(t, "cleanup", None) ELSE Goto(t, "cleanup_files")
    /\ UNCHANGED <<cacheShared, cm_call, cm_loaded, cm_left, cm_next, cm_walk>>

\* with self.cache_lock: the thread gets the lock when it is free.
AcquireLock(t) ==
    /\ cm_pc[t] \in AcquirePositions
    /\ cm_lock = "free"
    /\ cm_lock' = t
    /\ Goto(t, AfterAcquire[cm_pc[t]])
    /\ UNCHANGED <<cm_enabled, cm_memory, cm_order, cm_files, cm_expired, cm_stats,
                   cm_call, cm_loaded, cm_left, cm_next, cm_walk>>

\* The three cases of clear: everything, a category, one item.
ClearsAll(call) == call.category = NoName /\ call.identifier = NoName
ClearsCategory(call) ==
    /\ ~ClearsAll(call)
    /\ call.category \notin {NoName, <<>>}
    /\ call.identifier \in {NoName, <<>>}

\* The keys clear removes from the memory cache.
ClearedKeys(call, memory) ==
    IF ClearsAll(call) THEN DOMAIN memory
    ELSE IF ClearsCategory(call)
    THEN {k \in DOMAIN memory : StartsWith(k, call.category \o <<"_">>)}
    ELSE {generate_cache_key(call.category, call.identifier, NoKwargs)}

RECURSIVE RemoveAll(_, _)
\* for key in keys: if key in order: order.remove(key)
RemoveAll(order, keys) ==
    IF keys = {} THEN order
    ELSE LET key == CHOOSE k \in keys : TRUE
         IN  RemoveAll(RemoveFirst(order, key), keys \ {key})

\* The statements a thread executes while it has the lock, by position;
\* the block ends with the release of the lock or with a call that waits
\* for the lock again.
CriticalSection(t) ==
    LET key == CacheKey(t)
        pc == cm_pc[t]
        Keep == UNCHANGED <<cm_memory, cm_order, cm_stats>>
        Stats(hit_type) ==
            /\ cm_stats' = UpdateAccessStats(cm_stats, key, hit_type)
            /\ cm_lock' = "free"
            /\ UNCHANGED <<cm_memory, cm_order>>
        Manage(next) ==
            LET kept == Evict(cm_memory, cm_order)
            IN  /\ cm_memory' = kept.memory
                /\ cm_order' = kept.order
                /\ cm_lock' = "free"
                /\ Goto(t, next)
                /\ UNCHANGED cm_stats
    IN  /\ pc \in {AfterAcquire[p] : p \in AcquirePositions}
        /\ cm_lock = t
        /\ CASE pc = "get_memory" ->
                   IF key \in DOMAIN cm_memory
                   THEN /\ cm_order' = MoveToEnd(cm_order, key)
                        /\ Goto(t, "hit_stats_lock")
                        /\ UNCHANGED <<cm_memory, cm_stats, cm_lock>>
                   ELSE /\ cm_lock' = "free"
                        /\ Goto(t, "get_file")
                        /\ Keep
             [] pc = "hit_stats" -> Stats("memory") /\ Return(t, "get", cm_memory[key])
             [] pc = "file_store" ->
                   /\ cm_memory' = MapPut(cm_memory, key, cm_loaded[t])
                   /\ cm_order' = Append(cm_order, key)
                   /\ Goto(t, "file_manage_lock")
                   /\ UNCHANGED <<cm_stats, cm_lock>>
             [] pc = "file_manage" -> Manage("file_stats_lock")
             [] pc = "file_stats" -> Stats("file") /\ Return(t, "get", cm_loaded[t])
             [] pc = "miss_stats" -> Stats("miss") /\ Return(t, "get", None)
             [] pc = "set_store" ->
                   /\ cm_memory' = MapPut(cm_memory, key, cm_call[t].data)
                   /\ cm_order' = MoveToEnd(cm_order, key)
                   /\ Goto(t, "set_manage_lock")
                   /\ UNCHANGED <<cm_stats, cm_lock>>
             [] pc = "set_manage" -> Manage("set_file")
             [] pc = "clear_memory" ->
                   LET keys == ClearedKeys(cm_call[t], cm_memory)
                   IN  /\ cm_memory' = MapDel(cm_memory, keys)
                       /\ cm_order' = IF ClearsAll(cm_call[t])
                                      THEN <<>> ELSE RemoveAll(cm_order, keys)
                       /\ cm_lock' = "free"
                       /\ Goto(t, "clear_files")
                       /\ UNCHANGED cm_stats
        /\ UNCHANGED <<cm_enabled, cm_files, cm_expired, cm_call, cm_loaded, cm_left, cm_next,
                       cm_walk>>

\* The file cache, outside the lock, one operation on the files per step:
\* in get the two exists(), the stat, the read and the unlink of a file that
\* cannot be read; the write of set; in clear the listing of a directory by
\* rmtree and every unlink; in cleanup_expired the listing of a directory by
\* os.walk and, for every file, the exists() and the stat of
\* _is_cache_expired, the stat of the size and the unlink.  A file that is
\* gone makes stat and unlink raise: in get, at the stat of
\* _is_cache_expired, the exception leaves get; in clear and in
\* cleanup_expired it ends the call.
FileStep(t) ==
    LET key == CacheKey(t)
        pc == cm_pc[t]
        call == cm_call[t]
        Exists(k) == k \in DOMAIN cm_files
        Delete(k) ==
            /\ cm_files' = MapDel(cm_files, {k})
            /\ cm_expired' = cm_expired \ {k}
        KeepFiles == UNCHANGED <<cm_files, cm_expired>>
        Stay == UNCHANGED <<cm_pc, cm_ret>>
        Ends(of) == Return(t, of, None) /\ cm_walk' = NoWalk
        Lists(d) ==
            cm_walk' = [cm_walk EXCEPT !.dirs = @ \ {d},
                                       !.files = {k \in DOMAIN cm_files : Subdir(k) = d}]
    IN  /\ pc \in {"get_file", "get_expired", "get_stat", "get_read", "get_unlink",
                   "set_file", "clear_files", "clear_walk", "clear_unlink",
                   "cleanup_files", "cleanup_walk", "cleanup_mtime", "cleanup_size",
                   "cleanup_unlink"}
        /\ CASE pc = "get_file" ->      \* file_path.exists()
                   /\ Goto(t, IF Exists(key) THEN "get_expired" ELSE "miss_stats_lock")
                   /\ KeepFiles /\ UNCHANGED <<cm_loaded, cm_walk>>
             [] pc = "get_expired" ->   \* _is_cache_expired: file_path.exists()
                   /\ Goto(t, IF Exists(key) THEN "get_stat" ELSE "miss_stats_lock")
                   /\ KeepFiles /\ UNCHANGED <<cm_loaded, cm_walk>>
             [] pc = "get_stat" ->      \* _is_cache_expired: file_path.stat()
                   /\ IF ~Exists(key) THEN Return(t, "get raised", None)
                      ELSE Goto(t, IF key \in cm_expired THEN "miss_stats_lock" ELSE "get_read")
                   /\ KeepFiles /\ UNCHANGED <<cm_loaded, cm_walk>>
             [] pc = "get_read" ->      \* open and json.load
                   /\ IF Exists(key) /\ cm_files[key] # 0
                      THEN /\ cm_loaded' = [cm_loaded EXCEPT ![t] = cm_files[key]]
                           /\ Goto(t, "file_lock")
                      ELSE /\ Goto(t, "get_unlink")
                           /\ UNCHANGED cm_loaded
                   /\ KeepFiles /\ UNCHANGED cm_walk
             [] pc = "get_unlink" ->    \* file_path.unlink(), its error passed over
                   /\ Delete(key)
                   /\ Goto(t, "miss_stats_lock")
                   /\ UNCHANGED <<cm_loaded, cm_walk>>
             [] pc = "set_file" ->
                   /\ cm_files' = MapPut(cm_files, key, call.data)
                   /\ cm_expired' = cm_expired \ {key}
                   /\ Return(t, "set", 1)
                   /\ UNCHANGED <<cm_loaded, cm_walk>>
             [] pc = "clear_files" ->
                   /\ IF ClearsAll(call)
                      THEN /\ cm_walk' = [NoWalk EXCEPT !.dirs = CacheDirs]
                           /\ Goto(t, "clear_walk")
                      ELSE IF ClearsCategory(call)
                      THEN IF ClearedSubdir(call.category) = "none"
                           THEN Ends("clear")
                           ELSE /\ cm_walk' = [NoWalk EXCEPT !.dirs = {ClearedSubdir(call.category)}]
                                /\ Goto(t, "clear_walk")
                      ELSE LET item == generate_cache_key(call.category, call.identifier, NoKwargs)
                           IN  IF Exists(item)
                               THEN /\ cm_walk' = [NoWalk EXCEPT !.file = item]
                                    /\ Goto(t, "clear_unlink")
                               ELSE Ends("clear")
                   /\ KeepFiles /\ UNCHANGED cm_loaded
             [] pc = "clear_walk" ->    \* shutil.rmtree
                   /\ IF cm_walk.files # {}
                      THEN \E k \in cm_walk.files :
                              IF Exists(k)
                              THEN /\ Delete(k)
                                   /\ cm_walk' = [cm_walk EXCEPT !.files = @ \ {k}]
                                   /\ Stay
                              ELSE Ends("clear error") /\ KeepFiles
                      ELSE IF cm_walk.dirs # {}
                      THEN /\ \E d \in cm_walk.dirs : Lists(d)
                           /\ Stay /\ KeepFiles
                      ELSE Ends("clear") /\ KeepFiles
                   /\ UNCHANGED cm_loaded
             [] pc = "clear_unlink" ->
                   /\ IF Exists(cm_walk.file)
                      THEN Delete(cm_walk.file) /\ Ends("clear")
                      ELSE Ends("clear error") /\ KeepFiles
                   /\ UNCHANGED cm_loaded
             [] pc = "cleanup_files" -> \* os.walk(self.cache_dir)
                   /\ cm_walk' = [NoWalk EXCEPT !.dirs = CacheDirs]
                   /\ Goto(t, "cleanup_walk")
                   /\ KeepFiles /\ UNCHANGED cm_loaded
             [] pc = "cleanup_walk" ->  \* the next file: _is_cache_expired, exists()
                   /\ IF cm_walk.files # {}
                      THEN \E k \in cm_walk.files :
                              /\ cm_walk' = [cm_walk EXCEPT !.files = @ \ {k}, !.file = k]
                              /\ Goto(t, IF Exists(k) THEN "cleanup_mtime" ELSE "cleanup_size")
                      ELSE IF cm_walk.dirs # {}
                      THEN (\E d \in cm_walk.dirs : Lists(d)) /\ Stay
                      ELSE Ends("cleanup")
                   /\ KeepFiles /\ UNCHANGED cm_loaded
             [] pc = "cleanup_mtime" -> \* _is_cache_expired: file_path.stat()
                   /\ IF ~Exists(cm_walk.file) THEN Ends("cleanup error")
                      ELSE /\ Goto(t, IF cm_walk.file \in cm_expired
                                      THEN "cleanup_size" ELSE "cleanup_walk")
                           /\ UNCHANGED cm_walk
                   /\ KeepFiles /\ UNCHANGED cm_loaded
             [] pc = "cleanup_size" ->  \* file_path.stat().st_size
                   /\ IF ~Exists(cm_walk.file) THEN Ends("cleanup error")
                      ELSE Goto(t, "cleanup_unlink") /\ UNCHANGED cm_walk
                   /\ KeepFiles /\ UNCHANGED cm_loaded
             [] pc = "cleanup_unlink" ->
                   /\ IF ~Exists(cm_walk.file)
                      THEN Ends("cleanup error") /\ KeepFiles
                      ELSE /\ Delete(cm_walk.file)
                           /\ Goto(t, "cleanup_walk")
                           /\ UNCHANGED cm_walk
                   /\ UNCHANGED cm_loaded
        /\ UNCHANGED <<cm_enabled, cm_memory, cm_order, cm_stats, cm_lock, cm_call,
                       cm_left, cm_next>>

Enters == \E t \in Threads : Enter(t)
AcquiresLock == \E t \in Threads : AcquireLock(t)
CriticalSections == \E t \in Threads : CriticalSection(t)
FileSteps == \E t \in Threads : FileStep(t)

\* The steps of one thread inside a call it has begun.
ThreadStep(t) == Enter(t) \/ AcquireLock(t) \/ CriticalSection(t) \/ FileStep(t)

(***************************************************************************)
(* Claims about the cache.                                                 *)
(***************************************************************************)
\* Every key of the memory cache is exactly once in the access order, and
\* the memory cache is within its limit.
LruInvariant ==
    /\ Cardinality(DOMAIN cm_memory) <= max_memory_items
    /\ \A k \in DOMAIN cm_memory :
          Cardinality({i \in 1..Len(cm_order) : cm_order[i] = k}) = 1

\* C22: the background preloader never blocks foreground work: under every
\* interleaving, a get or set the foreground thread has begun completes.
C22_ForegroundCompletes ==
    (cm_pc["fg"] \in {"get", "set"}) ~> (cm_pc["fg"] = "idle")

\* C23: no operation waits for cache_lock while its own thread holds it.
C23_NoAcquireWhileHolding ==
    \A t \in Threads : cm_pc[t] \in AcquirePositions => cm_lock # t

\* A memory cache with the keys 1..n, and the access order of these keys
\* that begins with the key first and goes round.
CacheOf(n) == [k \in 1..n |-> 1]
OrderFrom(first, n) == [i \in 1..n |-> ((first + i - 2) % n) + 1]

\* The statements of set and of a memory hit on the order, and the loop of
\* _manage_memory_cache_size, on caches at and over the limit: a cache at
\* the limit is left as it is; from a cache one over the limit the key at
\* the head of the order, and no other, is removed; and after a hit on the
\* oldest key of a full cache, the set of a new key removes the second
\* oldest key and leaves the key that was hit and the new key at the end.
EvictionRemovesOldest ==
    LET limit == max_memory_items
    IN  /\ \A first \in 1..limit :
              Evict(CacheOf(limit), OrderFrom(first, limit))
                  = [memory |-> CacheOf(limit), order |-> OrderFrom(first, limit)]
        /\ \A first \in 1..(limit + 1) :
              LET order == OrderFrom(first, limit + 1)
                  kept == Evict(CacheOf(limit + 1), order)
              IN  /\ DOMAIN kept.memory = (1..(limit + 1)) \ {first}
                  /\ kept.order = [i \in 1..limit |-> order[i + 1]]
        /\ \A first \in 1..limit :
              LET order == OrderFrom(first, limit)
                  hit == MoveToEnd(order, first)
                  kept == Evict(MapPut(CacheOf(limit), limit + 1, 1),
                                MoveToEnd(hit, limit + 1))
              IN  /\ DOMAIN kept.memory = (1..(limit + 1)) \ {order[2]}
                  /\ kept.order = [i \in 1..limit |->
                                      IF i <= limit - 2 THEN order[i + 2]
                                      ELSE IF i = limit - 1 THEN first
                                      ELSE limit + 1]

\* A step in which a set or a memory hit stores its key leaves the key at
\* the most-recent end of the order and the other keys in their order.
StoreMovesKeyToEnd ==
    \A t \in Threads :
        (/\ cm_pc[t] \in {"set_store", "get_memory"}
         /\ cm_pc'[t] # cm_pc[t]
         /\ CacheKey(t) \in DOMAIN cm_memory') =>
            /\ cm_order' # <<>>
            /\ cm_order'[Len(cm_order')] = CacheKey(t)
            /\ SelectSeq(cm_order', LAMBDA k : k # CacheKey(t))
                  = SelectSeq(cm_order, LAMBDA k : k # CacheKey(t))

C25_FileHitReturnsData ==
    (cm_pc["fg"] = "file_lock") ~>
        (cm_pc["fg"] = "idle" /\ cm_ret["fg"] = [of |-> "get", value |-> cm_loaded["fg"]])


(***************************************************************************)
(* DisplayFormatter.calculate_optimal_nature over the assignments of base  *)
(* stats: pokemon['stats'] in the order of the API (hp, attack, defense,   *)
(* special-attack, special-defense, speed), every non-HP stat drawn from   *)
(* StatLevels values.                                                      *)
(***************************************************************************)
StatLevels == 3
BaseStatValues == {35 * i : i \in 1..StatLevels}

NonHpStats == <<<<"a","t","t","a","c","k">>, <<"d","e","f","e","n","s","e">>, <<"s","p","e","c","i","a","l","-","a","t","t","a","c","k">>,
                <<"s","p","e","c","i","a","l","-","d","e","f","e","n","s","e">>, <<"s","p","e","e","d">>>>

NatureIdle ==
    /\ nt_stats = <<>>
    /\ nt_result = <<>>
    /\ nt_pc = "idle"

NatureInit ==
    /\ nt_stats \in {<<[name |-> <<"h","p">>, base_stat |-> 45]>>
                        \o [i \in 1..5 |-> [name |-> NonHpStats[i], base_stat |-> v[i]]] :
                     v \in [1..5 -> BaseStatValues]}
    /\ nt_result = <<>>
    /\ nt_pc = "call"

CalculateNature ==
    /\ nt_pc = "call"
    /\ nt_result' = calculate_optimal_nature(nt_stats).value
    /\ nt_pc' = "done"
    /\ UNCHANGED nt_stats

(***************************************************************************)
(* Claims about calculate_optimal_nature.                                  *)
(***************************************************************************)
\* The non-HP stats of nt_stats with the greatest and with the least value.
HighestStats ==
    {i \in 2..6 : \A j \in 2..6 : nt_stats[j].base_stat <= nt_stats[i].base_stat}
LowestStats ==
    {i \in 2..6 : \A j \in 2..6 : nt_stats[j].base_stat >= nt_stats[i].base_stat}

\* The end of the answer for a nature that boosts stat b and reduces stat r.
EffectText(b, r) ==
    <<"(", "+">> \o Title(Replace(nt_stats[b].name, "-", " ")) \o <<",", " ", "-">>
    \o Title(Replace(nt_stats[r].name, "-", " ")) \o <<")">>

AnswerEndsWith(text) ==
    /\ Len(nt_result) >= Len(text)
    /\ SubSeq(nt_result, Len(nt_result) - Len(text) + 1, Len(nt_result)) = text

\* C28: when the highest and the lowest non-HP stat are different stats, the
\* answer of calculate_optimal_nature is a nature that boosts a stat of the
\* greatest value and reduces a stat of the least value.
C28_NatureBoostsHighestReducesLowest ==
    (nt_pc = "done" /\ HighestStats \cap LowestStats = {}) =>
        \E b \in HighestStats, r \in LowestStats : AnswerEndsWith(EffectText(b, r))


(***************************************************************************)
(* Specifications: one per function group; the other groups stay idle.     *)
(***************************************************************************)
OthersWrap == <<borderVars, normVars, compareVars, spriteVars, evolutionVars,
                  statVars, tableVars, pokedexVars, panelVars, terminalVars,
                  filterVars, cacheVars, natureVars>>

WrapNext ==
    \/ WrapCall /\ UNCHANGED OthersWrap

InitWrap == WrapInit /\ BorderIdle /\ NormIdle /\ CompareIdle /\
    SpriteIdle /\ EvolutionIdle /\ StatIdle /\ TableIdle /\ PokedexIdle /\
    PanelIdle /\ TerminalIdle /\ FilterIdle /\ CacheIdle /\ NatureIdle

SpecWrap == InitWrap /\ [][WrapNext]_vars

OthersBorder == <<wrapVars, normVars, compareVars, spriteVars, evolutionVars,
                    statVars, tableVars, pokedexVars, panelVars,
                    terminalVars, filterVars, cacheVars, natureVars>>

BorderNext ==
    \/ FormatMoveTable /\ UNCHANGED OthersBorder
    \/ FormatBordered /\ UNCHANGED OthersBorder

InitBorder == BorderInit /\ WrapIdle /\ NormIdle /\ CompareIdle /\
    SpriteIdle /\ EvolutionIdle /\ StatIdle /\ TableIdle /\ PokedexIdle /\
    PanelIdle /\ TerminalIdle /\ FilterIdle /\ CacheIdle /\ NatureIdle

SpecBorder == InitBorder /\ [][BorderNext]_vars

OthersNorm == <<wrapVars, borderVars, compareVars, spriteVars, evolutionVars,
                  statVars, tableVars, pokedexVars, panelVars, terminalVars,
                  filterVars, cacheVars, natureVars>>

NormNext ==
    \/ NormalizeComparison /\ UNCHANGED OthersNorm
    \/ NormalizePokedex /\ UNCHANGED OthersNorm
    \/ NormalizeAgain /\ UNCHANGED OthersNorm

InitNorm == NormInit /\ WrapIdle /\ BorderIdle /\ CompareIdle /\
    SpriteIdle /\ EvolutionIdle /\ StatIdle /\ TableIdle /\ PokedexIdle /\
    PanelIdle /\ TerminalIdle /\ FilterIdle /\ CacheIdle /\ NatureIdle

SpecNorm == InitNorm /\ [][NormNext]_vars

OthersCompare == <<wrapVars, borderVars, normVars, spriteVars, evolutionVars,
                     statVars, tableVars, pokedexVars, panelVars,
                     terminalVars, filterVars, cacheVars, natureVars>>

CompareNext ==
    \/ DisplaySprites /\ UNCHANGED OthersCompare

InitCompare == CompareInit /\ WrapIdle /\ BorderIdle /\ NormIdle /\
    SpriteIdle /\ EvolutionIdle /\ StatIdle /\ TableIdle /\ PokedexIdle /\
    PanelIdle /\ TerminalIdle /\ FilterIdle /\ CacheIdle /\ NatureIdle

SpecCompare == InitCompare /\ [][CompareNext]_vars

OthersSprite == <<wrapVars, borderVars, normVars, compareVars, evolutionVars,
                    statVars, tableVars, pokedexVars, panelVars,
                    terminalVars, filterVars, cacheVars, natureVars>>

SpriteNext ==
    \/ RenderNoUrl /\ UNCHANGED OthersSprite
    \/ RenderFetchFailed /\ UNCHANGED OthersSprite
    \/ RenderError /\ UNCHANGED OthersSprite
    \/ RenderAscii /\ UNCHANGED OthersSprite

InitSprite == SpriteInit /\ WrapIdle /\ BorderIdle /\ NormIdle /\
    CompareIdle /\ EvolutionIdle /\ StatIdle /\ TableIdle /\ PokedexIdle /\
    PanelIdle /\ TerminalIdle /\ FilterIdle /\ CacheIdle /\ NatureIdle

SpecSprite == InitSprite /\ [][SpriteNext]_vars

OthersEvolution == <<wrapVars, borderVars, normVars, compareVars, spriteVars,
                       statVars, tableVars, pokedexVars, panelVars,
                       terminalVars, filterVars, cacheVars, natureVars>>

EvolutionNext ==
    \/ DisplayEvolutionStages /\ UNCHANGED OthersEvolution

InitEvolution == EvolutionInit /\ WrapIdle /\ BorderIdle /\ NormIdle /\
    CompareIdle /\ SpriteIdle /\ StatIdle /\ TableIdle /\ PokedexIdle /\
    PanelIdle /\ TerminalIdle /\ FilterIdle /\ CacheIdle /\ NatureIdle

SpecEvolution == InitEvolution /\ [][EvolutionNext]_vars

OthersStat == <<wrapVars, borderVars, normVars, compareVars, spriteVars,
                  evolutionVars, tableVars, pokedexVars, panelVars,
                  terminalVars, filterVars, cacheVars, natureVars>>

StatNext ==
    \/ DisplayStatComparisonLine /\ UNCHANGED OthersStat

InitStat == StatInit /\ WrapIdle /\ BorderIdle /\ NormIdle /\ CompareIdle /\
    SpriteIdle /\ EvolutionIdle /\ TableIdle /\ PokedexIdle /\ PanelIdle /\
    TerminalIdle /\ FilterIdle /\ CacheIdle /\ NatureIdle

SpecStat == InitStat /\ [][StatNext]_vars

OthersTable == <<wrapVars, borderVars, normVars, compareVars, spriteVars,
                   evolutionVars, statVars, pokedexVars, panelVars,
                   terminalVars, filterVars, cacheVars, natureVars>>

TableNext ==
    \/ FormatMoves /\ UNCHANGED OthersTable
    \/ FormatLocations /\ UNCHANGED OthersTable

InitTable == TableInit /\ WrapIdle /\ BorderIdle /\ NormIdle /\
    CompareIdle /\ SpriteIdle /\ EvolutionIdle /\ StatIdle /\ PokedexIdle /\
    PanelIdle /\ TerminalIdle /\ FilterIdle /\ CacheIdle /\ NatureIdle

SpecTable == InitTable /\ [][TableNext]_vars

OthersPokedex == <<wrapVars, borderVars, normVars, compareVars, spriteVars,
                     evolutionVars, statVars, tableVars, panelVars,
                     terminalVars, filterVars, cacheVars, natureVars>>

PokedexNext ==
    \/ DisplayPokemon /\ UNCHANGED OthersPokedex

InitPokedex == PokedexInit /\ WrapIdle /\ BorderIdle /\ NormIdle /\
    CompareIdle /\ SpriteIdle /\ EvolutionIdle /\ StatIdle /\ TableIdle /\
    PanelIdle /\ TerminalIdle /\ FilterIdle /\ CacheIdle /\ NatureIdle

SpecPokedex == InitPokedex /\ [][PokedexNext]_vars

OthersPanel == <<wrapVars, borderVars, normVars, compareVars, spriteVars,
                   evolutionVars, statVars, tableVars, pokedexVars,
                   terminalVars, filterVars, cacheVars, natureVars>>

PanelNext ==
    \/ PrintHeader /\ UNCHANGED OthersPanel
    \/ PrintSprites /\ UNCHANGED OthersPanel
    \/ PrintBasicInfo /\ UNCHANGED OthersPanel
    \/ PrintStats /\ UNCHANGED OthersPanel
    \/ PrintTypes /\ UNCHANGED OthersPanel
    \/ PrintAbilities /\ UNCHANGED OthersPanel
    \/ PrintClosingBorder /\ UNCHANGED OthersPanel

InitPanel == PanelInit /\ WrapIdle /\ BorderIdle /\ NormIdle /\
    CompareIdle /\ SpriteIdle /\ EvolutionIdle /\ StatIdle /\ TableIdle /\
    PokedexIdle /\ TerminalIdle /\ FilterIdle /\ CacheIdle /\ NatureIdle

SpecPanel == InitPanel /\ [][PanelNext]_vars

OthersTerminal == <<wrapVars, borderVars, normVars, compareVars, spriteVars,
                      evolutionVars, statVars, tableVars, pokedexVars,
                      panelVars, filterVars, cacheVars, natureVars>>

TerminalNext ==
    \/ ProcessCommand /\ UNCHANGED OthersTerminal
    \/ Interrupt /\ UNCHANGED OthersTerminal

InitTerminal == TerminalInit /\ WrapIdle /\ BorderIdle /\ NormIdle /\
    CompareIdle /\ SpriteIdle /\ EvolutionIdle /\ StatIdle /\ TableIdle /\
    PokedexIdle /\ PanelIdle /\ FilterIdle /\ CacheIdle /\ NatureIdle

SpecTerminal == InitTerminal /\ [][TerminalNext]_vars

OthersFilter == <<wrapVars, borderVars, normVars, compareVars, spriteVars,
                    evolutionVars, statVars, tableVars, pokedexVars,
                    panelVars, terminalVars, cacheVars, natureVars>>

FilterNext ==
    \/ MoveQuery /\ UNCHANGED OthersFilter
    \/ LocationGenQuery /\ UNCHANGED OthersFilter
    \/ LocationGameQuery /\ UNCHANGED OthersFilter

InitFilter == FilterInit /\ WrapIdle /\ BorderIdle /\ NormIdle /\
    CompareIdle /\ SpriteIdle /\ EvolutionIdle /\ StatIdle /\ TableIdle /\
    PokedexIdle /\ PanelIdle /\ TerminalIdle /\ CacheIdle /\ NatureIdle

SpecFilter == InitFilter /\ [][FilterNext]_vars

OthersCache == <<wrapVars, borderVars, normVars, compareVars, spriteVars,
                   evolutionVars, statVars, tableVars, pokedexVars,
                   panelVars, terminalVars, filterVars, natureVars>>

CacheNext ==
    \/ ForegroundCall /\ UNCHANGED OthersCache
    \/ PreloaderStep /\ UNCHANGED OthersCache
    \/ Enters /\ UNCHANGED OthersCache
    \/ AcquiresLock /\ UNCHANGED OthersCache
    \/ CriticalSections /\ UNCHANGED OthersCache
    \/ FileSteps /\ UNCHANGED OthersCache

InitCache == CacheInit /\ WrapIdle /\ BorderIdle /\ NormIdle /\
    CompareIdle /\ SpriteIdle /\ EvolutionIdle /\ StatIdle /\ TableIdle /\
    PokedexIdle /\ PanelIdle /\ TerminalIdle /\ FilterIdle /\ NatureIdle

SpecCache == InitCache /\ [][CacheNext]_vars

\* Every thread that can take a step of the call it is in eventually takes it.
SpecCacheFair == SpecCache /\ \A t \in Threads : WF_vars(ThreadStep(t) /\ UNCHANGED OthersCache)

OthersNature == <<wrapVars, borderVars, normVars, compareVars, spriteVars,
                    evolutionVars, statVars, tableVars, pokedexVars,
                    panelVars, terminalVars, filterVars, cacheVars>>

NatureNext ==
    \/ CalculateNature /\ UNCHANGED OthersNature

InitNature == NatureInit /\ WrapIdle /\ BorderIdle /\ NormIdle /\
    CompareIdle /\ SpriteIdle /\ EvolutionIdle /\ StatIdle /\ TableIdle /\
    PokedexIdle /\ PanelIdle /\ TerminalIdle /\ FilterIdle /\ CacheIdle

SpecNature == InitNature /\ [][NatureNext]_vars

====
